---- MODULE Spec2Model ----
(***************************************************************************)
(* Model of the tennis-analysis tracking pipeline:                         *)
(*   - PlayerTracker.choose_and_filter_players / choose_players            *)
(*     (src/trackers/player_tracker.py), the player identity resolver;     *)
(*   - PlayerTracker.detect_frame / detect_frames, the detection adapter   *)
(*     and its pickle cache;                                               *)
(*   - main (src/main.py), the batch pipeline around them.                 *)
(*                                                                         *)
(* Pixel coordinates are integers.  A Python dict is a sequence of         *)
(* [id, bbox] entries with distinct ids, in insertion order.  Scores that  *)
(* the code computes in floating point are exact rationals [n, d] here.    *)
(***************************************************************************)
EXTENDS Integers, Sequences, FiniteSets, TLC

\* ------------------------------------------------------------------------
\* Bounds of the model
\* ------------------------------------------------------------------------
MaxFrames == 3
MaxDets == 3
MaxTail == 1
MaxRaw == 2
MaxVideoFrames == 2
MaxStatFrames == 3
MaxBallBoxes == 3
MaxBallFrames == 4
MaxTrajectory == 34
MaxStart == 2
MaxSpan == 5
MaxStep == 3
MaxLimit == 2

\* ------------------------------------------------------------------------
\* Program constants
\* ------------------------------------------------------------------------
InitWindow == 10
MaxMoveDistance == 300
FrameWidth == 1920
FrameHeight == 1080
SubstantialArea == 15000
MovementBonusCap == 5
MovementDivisor == 1000
MinConfidence == 50          \* min_confidence = 0.5, in percent
MinArea == 5000
MaxArea == 150000
MinHeight == 60
MaxWidth == 250
PseudoIdModulus == 10000
AssumedFps == 24              \* (end_frame-start_frame)/24, main line 191

NoId == -1
NoMax == -1                   \* max_frames=None
NoPos == <<>>

\* Python truthiness of an id: None and 0 are both falsy.
Truthy(id) == id # NoId /\ id # 0

\* ------------------------------------------------------------------------
\* Sequence helpers
\* ------------------------------------------------------------------------
RECURSIVE SelectSeqBy(_, _)
SelectSeqBy(s, keep) ==
  IF s = <<>> THEN <<>>
  ELSE IF Head(s).id \in keep THEN <<Head(s)>> \o SelectSeqBy(Tail(s), keep)
       ELSE SelectSeqBy(Tail(s), keep)

Min2(a, b) == IF a < b THEN a ELSE b
Max2(a, b) == IF a > b THEN a ELSE b

\* ------------------------------------------------------------------------
\* Exact rationals for the float scores
\* ------------------------------------------------------------------------
RECURSIVE GCD(_, _)
GCD(a, b) == IF b = 0 THEN a ELSE GCD(b, a % b)

Abs(a) == IF a < 0 THEN -a ELSE a

Frac(n, d) ==
  LET g == GCD(Abs(n), Abs(d))
      s == IF d < 0 THEN -1 ELSE 1
  IN  [n |-> (s * n) \div g, d |-> (s * d) \div g]

FInt(k) == [n |-> k, d |-> 1]
FAdd(a, b) == Frac(a.n * b.d + b.n * a.d, a.d * b.d)
FMul(a, b) == Frac(a.n * b.n, a.d * b.d)
FDivInt(a, k) == Frac(a.n, a.d * k)
FLess(a, b) == a.n * b.d < b.n * a.d
FLeq(a, b) == a.n * b.d <= b.n * a.d
FMin(a, b) == IF FLess(b, a) THEN b ELSE a

\* ------------------------------------------------------------------------
\* Bounding-box helpers (utils.bbox_utils)
\* ------------------------------------------------------------------------
get_center_of_bbox(bbox) ==
  <<(bbox[1] + bbox[3]) \div 2, (bbox[2] + bbox[4]) \div 2>>

get_foot_position(bbox) == <<(bbox[1] + bbox[3]) \div 2, bbox[4]>>

DistSq(p, q) == (p[1] - q[1]) * (p[1] - q[1]) + (p[2] - q[2]) * (p[2] - q[2])

RECURSIVE ISqrtBetween(_, _, _)
ISqrtBetween(n, lo, hi) ==
  IF hi - lo <= 1 THEN lo
  ELSE LET mid == (lo + hi) \div 2
       IN  IF mid * mid <= n THEN ISqrtBetween(n, mid, hi) ELSE ISqrtBetween(n, lo, mid)

\* Integer square root by bisection.  The boxes enumerated below have
\* integral distances to the court centre, where the value is exact.
ISqrt(n) == ISqrtBetween(n, 0, Min2(n + 1, 46340))

measure_distance(p, q) == ISqrt(DistSq(p, q))

\* ------------------------------------------------------------------------
\* Dict helpers
\* ------------------------------------------------------------------------
Keys(d) == {d[i].id : i \in 1..Len(d)}
HasKey(d, k) == \E i \in 1..Len(d) : d[i].id = k
Get(d, k) == d[CHOOSE i \in 1..Len(d) : d[i].id = k].bbox
Entry(d, k) == d[CHOOSE i \in 1..Len(d) : d[i].id = k]

\* d[k] = v : overwrite in place, or append as the newest key.
Put(d, k, v) ==
  IF HasKey(d, k)
    THEN [i \in 1..Len(d) |-> IF d[i].id = k THEN [id |-> k, bbox |-> v] ELSE d[i]]
    ELSE Append(d, [id |-> k, bbox |-> v])

Del(d, k) == SelectSeqBy(d, Keys(d) \ {k})

\* ------------------------------------------------------------------------
\* PlayerTracker.choose_players
\* ------------------------------------------------------------------------
Width(bbox) == bbox[3] - bbox[1]
Height(bbox) == bbox[4] - bbox[2]
Area(bbox) == Width(bbox) * Height(bbox)

\* frame_width * 0.2 < center_x < frame_width * 0.8  (384.0 and 1536.0)
InCourtWidth(c) == FrameWidth * 2 < c[1] * 10 /\ c[1] * 10 < FrameWidth * 8
\* center_y > frame_height * 0.2  (216.0)
InCourtHeight(c) == c[2] * 10 > FrameHeight * 2

CourtCenter == <<FrameWidth \div 2, (FrameHeight * 6) \div 10>>

\* The candidate score of choose_players, times 200:
\*   score = 3,2,2,1,1 bonuses + max(0, 3 - distance_to_court_center / 200)
CandidateScore200(bbox) ==
  LET c == get_center_of_bbox(bbox)
      w == Width(bbox)
      h == Height(bbox)
      d == measure_distance(c, CourtCenter)
  IN  200 * ( (IF InCourtWidth(c) THEN 3 ELSE 0)
            + (IF InCourtHeight(c) THEN 2 ELSE 0)
            + (IF Area(bbox) > SubstantialArea THEN 2 ELSE 0)
            + (IF bbox[1] > 50 /\ bbox[3] < FrameWidth - 50 THEN 1 ELSE 0)
            + (IF w < h /\ h < 4 * w THEN 1 ELSE 0) )
      + Max2(0, 600 - d)

Candidate(e) ==
  [id |-> e.id, bbox |-> e.bbox, score |-> CandidateScore200(e.bbox),
   dist |-> measure_distance(get_center_of_bbox(e.bbox), CourtCenter)]

\* sort key (-score, distance): a strictly before b
CandidateBefore(a, b) ==
  a.score > b.score \/ (a.score = b.score /\ a.dist < b.dist)

RECURSIVE InsertCandidate(_, _)
InsertCandidate(x, s) ==
  IF s = <<>> THEN <<x>>
  ELSE IF CandidateBefore(x, Head(s)) THEN <<x>> \o s
       ELSE <<Head(s)>> \o InsertCandidate(x, Tail(s))

\* list.sort is stable: equal keys keep their dict order
RECURSIVE SortCandidates(_, _)
SortCandidates(todo, done) ==
  IF todo = <<>> THEN done
  ELSE SortCandidates(Tail(todo), InsertCandidate(Head(todo), done))

choose_players(player_dict) ==
  IF Len(player_dict) <= 2
    THEN [i \in 1..Len(player_dict) |-> player_dict[i].id]
    ELSE LET candidates ==
               SortCandidates([i \in 1..Len(player_dict) |-> Candidate(player_dict[i])], <<>>)
         IN  [i \in 1..Min2(2, Len(candidates)) |-> candidates[i].id]

\* ------------------------------------------------------------------------
\* choose_and_filter_players, step 1: statistics over the first 10 frames
\* ------------------------------------------------------------------------
\* Court-based score of one appearance: +3 central, +2 below the stands,
\* +2 substantial area.
AppearanceScore(bbox) ==
  LET c == get_center_of_bbox(bbox)
  IN  (IF InCourtWidth(c) THEN 3 ELSE 0)
    + (IF InCourtHeight(c) THEN 2 ELSE 0)
    + (IF Area(bbox) > SubstantialArea THEN 2 ELSE 0)

StatsHas(stats, pid) == \E i \in 1..Len(stats) : stats[i].id = pid

NewStats(pid, idx) ==
  [id |-> pid, appearances |-> 0, total_score |-> FInt(0), positions |-> <<>>,
   first_appearance |-> idx]

\* Variant of RecordAppearance: only the first appearance of a track id is
\* recorded.
RecordAppearance_FirstOnly(stats, pid, player_dict, idx) ==
  IF StatsHas(stats, pid) THEN stats
  ELSE Append(stats,
              [id |-> pid, appearances |-> 1,
               total_score |-> FInt(AppearanceScore(Get(player_dict, pid))),
               positions |-> <<get_center_of_bbox(Get(player_dict, pid))>>,
               first_appearance |-> idx])

\* body of "for player_id in frame_candidates" for one candidate
RecordAppearance(stats, pid, player_dict, idx) ==
  LET s0 == IF StatsHas(stats, pid) THEN stats ELSE Append(stats, NewStats(pid, idx))
  IN  [i \in 1..Len(s0) |->
         IF s0[i].id # pid THEN s0[i]
         ELSE IF HasKey(player_dict, pid)
           THEN [s0[i] EXCEPT
                   !.appearances = @ + 1,
                   !.total_score = FAdd(@, FInt(AppearanceScore(Get(player_dict, pid)))),
                   !.positions = Append(@, get_center_of_bbox(Get(player_dict, pid)))]
           ELSE [s0[i] EXCEPT !.appearances = @ + 1]]

RECURSIVE RecordCandidates(_, _, _, _)
RecordCandidates(stats, cands, player_dict, idx) ==
  IF cands = <<>> THEN stats
  ELSE RecordCandidates(RecordAppearance(stats, Head(cands), player_dict, idx),
                        Tail(cands), player_dict, idx)

RECURSIVE SumSeq(_)
SumSeq(s) == IF s = <<>> THEN 0 ELSE Head(s) + SumSeq(Tail(s))

\* n^2 * variance of a list:  n * sum(x^2) - (sum x)^2
VarianceTimesN2(xs) ==
  Len(xs) * SumSeq([i \in 1..Len(xs) |-> xs[i] * xs[i]]) - SumSeq(xs) * SumSeq(xs)

\* min(5, (x_variance + y_variance) / 1000)
movement_bonus(positions) ==
  LET n == Len(positions)
      xs == [i \in 1..n |-> positions[i][1]]
      ys == [i \in 1..n |-> positions[i][2]]
      x_variance == Frac(VarianceTimesN2(xs), n * n)
      y_variance == Frac(VarianceTimesN2(ys), n * n)
  IN  FMin(FInt(MovementBonusCap), FDivInt(FAdd(x_variance, y_variance), MovementDivisor))

AddMovementBonus(stats) ==
  [i \in 1..Len(stats) |->
     IF Len(stats[i].positions) > 1
       THEN [stats[i] EXCEPT !.total_score = FAdd(@, movement_bonus(stats[i].positions))]
       ELSE stats[i]]

\* Variant of final_score: the appearance weighting is left out.
final_score_AvgOnly(st) == FDivInt(st.total_score, Max2(1, st.appearances))

\* final_score = (total_score / max(1, appearances)) * (appearances / 10)
final_score(st) ==
  FMul(FDivInt(st.total_score, Max2(1, st.appearances)), Frac(st.appearances, InitWindow))

Ranking(st) == [id |-> st.id, score |-> final_score(st), appearances |-> st.appearances]

\* sort key -final_score: a strictly before b
RankingBefore(a, b) == FLess(b.score, a.score)

RECURSIVE InsertRanking(_, _)
InsertRanking(x, s) ==
  IF s = <<>> THEN <<x>>
  ELSE IF RankingBefore(x, Head(s)) THEN <<x>> \o s
       ELSE <<Head(s)>> \o InsertRanking(x, Tail(s))

RECURSIVE SortRankings(_, _)
SortRankings(todo, done) ==
  IF todo = <<>> THEN done
  ELSE SortRankings(Tail(todo), InsertRanking(Head(todo), done))

RankPlayers(stats) == SortRankings([i \in 1..Len(stats) |-> Ranking(stats[i])], <<>>)

\* Variant of initial_chosen_players: only the best track is taken.
initial_chosen_players_TopOne(rankings) ==
  [i \in 1..Min2(1, Len(rankings)) |-> rankings[i].id]

initial_chosen_players(rankings) ==
  [i \in 1..Min2(2, Len(rankings)) |-> rankings[i].id]

\* ------------------------------------------------------------------------
\* choose_and_filter_players, step 2: one frame of dynamic tracking
\* ------------------------------------------------------------------------
\* The inner loop over unaccounted_players: the id of the closest detection
\* at distance < 300 (the first one on a tie), NoId when there is none.
\* Distances are compared through their squares; best.d2 = -1 is float('inf').
RECURSIVE BestMatchFrom(_, _, _)
BestMatchFrom(last_pos, unaccounted, best) ==
  IF unaccounted = <<>> THEN best
  ELSE LET d2 == DistSq(last_pos, get_center_of_bbox(Head(unaccounted).bbox))
           better == d2 < MaxMoveDistance * MaxMoveDistance
                     /\ (best.d2 = -1 \/ d2 < best.d2)
       IN  BestMatchFrom(last_pos, Tail(unaccounted),
                         IF better THEN [id |-> Head(unaccounted).id, d2 |-> d2] ELSE best)

BestMatch(last_pos, unaccounted) ==
  BestMatchFrom(last_pos, unaccounted, [id |-> NoId, d2 |-> -1]).id

\* "if best_match_id:" guards the re-mapping
RemapAccepted(best_match_id) == Truthy(best_match_id)

\* Variant of Rebind: the re-mapped box is stored under the matched track id
\* instead of the canonical id.
Rebind_KeyedByMatch(t, m, p1, p2) ==
  IF m.last_pos = NoPos \/ t.unaccounted = <<>> THEN t
  ELSE LET best == BestMatch(m.last_pos, t.unaccounted)
       IN  IF ~RemapAccepted(best) THEN t
           ELSE LET bbox == Get(t.unaccounted, best)
                IN  IF m.who = "player_1"
                      THEN [t EXCEPT !.cfp = Put(@, best, bbox),
                                     !.pos1 = get_center_of_bbox(bbox),
                                     !.src1 = best,
                                     !.unaccounted = Del(@, best)]
                      ELSE [t EXCEPT !.cfp = Put(@, best, bbox),
                                     !.pos2 = get_center_of_bbox(bbox),
                                     !.src2 = best,
                                     !.unaccounted = Del(@, best)]

\* Variant of Rebind: the matched detection stays in unaccounted_players.
Rebind_NoRemoval(t, m, p1, p2) ==
  IF m.last_pos = NoPos \/ t.unaccounted = <<>> THEN t
  ELSE LET best == BestMatch(m.last_pos, t.unaccounted)
       IN  IF ~RemapAccepted(best) THEN t
           ELSE LET bbox == Get(t.unaccounted, best)
                IN  IF m.who = "player_1"
                      THEN [t EXCEPT !.cfp = Put(@, p1, bbox),
                                     !.pos1 = get_center_of_bbox(bbox),
                                     !.src1 = best]
                      ELSE [t EXCEPT !.cfp = Put(@, p2, bbox),
                                     !.pos2 = get_center_of_bbox(bbox),
                                     !.src2 = best]

\* Variant of Rebind: a re-bound identity keeps its old last known position.
Rebind_StalePosition(t, m, p1, p2) ==
  IF m.last_pos = NoPos \/ t.unaccounted = <<>> THEN t
  ELSE LET best == BestMatch(m.last_pos, t.unaccounted)
       IN  IF ~RemapAccepted(best) THEN t
           ELSE LET bbox == Get(t.unaccounted, best)
                IN  IF m.who = "player_1"
                      THEN [t EXCEPT !.cfp = Put(@, p1, bbox),
                                     !.src1 = best,
                                     !.unaccounted = Del(@, best)]
                      ELSE [t EXCEPT !.cfp = Put(@, p2, bbox),
                                     !.src2 = best,
                                     !.unaccounted = Del(@, best)]

\* body of "for missing_player, last_pos in missing_players" for one entry;
\* t = [cfp, unaccounted, pos1, pos2, src1, src2]
Rebind(t, m, p1, p2) ==
  IF m.last_pos = NoPos \/ t.unaccounted = <<>> THEN t
  ELSE LET best == BestMatch(m.last_pos, t.unaccounted)
       IN  IF ~RemapAccepted(best) THEN t
           ELSE LET bbox == Get(t.unaccounted, best)
                IN  IF m.who = "player_1"
                      THEN [t EXCEPT !.cfp = Put(@, p1, bbox),
                                     !.pos1 = get_center_of_bbox(bbox),
                                     !.src1 = best,
                                     !.unaccounted = Del(@, best)]
                      ELSE [t EXCEPT !.cfp = Put(@, p2, bbox),
                                     !.pos2 = get_center_of_bbox(bbox),
                                     !.src2 = best,
                                     !.unaccounted = Del(@, best)]

RECURSIVE RebindAll(_, _, _, _)
RebindAll(t, missing, p1, p2) ==
  IF missing = <<>> THEN t
  ELSE RebindAll(Rebind(t, Head(missing), p1, p2), Tail(missing), p1, p2)

\* "if player_1_id and player_1_id in player_dict"
DirectMatch(pid, player_dict) == Truthy(pid) /\ HasKey(player_dict, pid)
\* "if player_1_id and player_1_id not in player_dict"
IsMissing(pid, player_dict) == Truthy(pid) /\ ~HasKey(player_dict, pid)

\* Variant of TrackOneFrame: a direct id match is taken only within
\* MaxMoveDistance of the last known position.
TrackOneFrame_DistanceGated(player_dict, p1, p2, pos1, pos2) ==
  LET Near(pid, pos) ==
        pos = NoPos \/ DistSq(pos, get_center_of_bbox(Get(player_dict, pid)))
                         < MaxMoveDistance * MaxMoveDistance
      d1 == DirectMatch(p1, player_dict) /\ Near(p1, pos1)
      d2 == DirectMatch(p2, player_dict) /\ Near(p2, pos2)
      cfp1 == IF d1 THEN Put(<<>>, p1, Get(player_dict, p1)) ELSE <<>>
      cfp2 == IF d2 THEN Put(cfp1, p2, Get(player_dict, p2)) ELSE cfp1
      npos1 == IF d1 THEN get_center_of_bbox(Get(player_dict, p1)) ELSE pos1
      npos2 == IF d2 THEN get_center_of_bbox(Get(player_dict, p2)) ELSE pos2
  IN  [cfp |-> cfp2, unaccounted |-> <<>>, pos1 |-> npos1, pos2 |-> npos2,
       src1 |-> IF d1 THEN p1 ELSE NoId, src2 |-> IF d2 THEN p2 ELSE NoId]

\* One iteration of "for frame_idx, player_dict in enumerate(player_detections)".
\* src1/src2 record which track-id entry of player_dict each identity took.
TrackOneFrame(player_dict, p1, p2, pos1, pos2) ==
  LET d1 == DirectMatch(p1, player_dict)
      d2 == DirectMatch(p2, player_dict)
      cfp1 == IF d1 THEN Put(<<>>, p1, Get(player_dict, p1)) ELSE <<>>
      cfp2 == IF d2 THEN Put(cfp1, p2, Get(player_dict, p2)) ELSE cfp1
      npos1 == IF d1 THEN get_center_of_bbox(Get(player_dict, p1)) ELSE pos1
      npos2 == IF d2 THEN get_center_of_bbox(Get(player_dict, p2)) ELSE pos2
      missing == (IF IsMissing(p1, player_dict)
                    THEN <<[who |-> "player_1", last_pos |-> npos1]>> ELSE <<>>)
              \o (IF IsMissing(p2, player_dict)
                    THEN <<[who |-> "player_2", last_pos |-> npos2]>> ELSE <<>>)
      unaccounted == SelectSeqBy(player_dict, Keys(player_dict) \ Keys(cfp2))
  IN  RebindAll([cfp |-> cfp2, unaccounted |-> unaccounted,
                 pos1 |-> npos1, pos2 |-> npos2,
                 src1 |-> IF d1 THEN p1 ELSE NoId,
                 src2 |-> IF d2 THEN p2 ELSE NoId],
                missing, p1, p2)

\* ------------------------------------------------------------------------
\* Inputs of the resolver: what the detection adapter can hand over
\* ------------------------------------------------------------------------
\* Boxes that pass the acceptance filter of detect_frame.  Centres:
\* A (600,648), B (700,648), C (1700,648): B is 100 px from A and 1000 px
\* from C; the distances to the court centre (960,648) are 360, 260 and 740.
BoxA == <<550, 548, 650, 748>>
BoxB == <<650, 548, 750, 748>>
BoxC == <<1650, 548, 1750, 748>>

Det(i, b) == [id |-> i, bbox |-> b]

\* The detections a frame can hold; a frame holds a window of at most MaxDets
\* consecutive entries with distinct track ids.  Track id 0 is a value of the
\* hash fallback of detect_frame.
DetList ==
  <<Det(2, BoxC), Det(1, BoxA), Det(2, BoxB), Det(3, BoxB), Det(4, BoxA),
    Det(0, BoxA), Det(1, BoxB)>>

DistinctIds(d) == \A i, j \in 1..Len(d) : i # j => d[i].id # d[j].id

FrameMenu ==
  {w \in {SubSeq(DetList, i, j) : i \in 1..Len(DetList), j \in 0..Len(DetList)} :
     Len(w) <= MaxDets /\ DistinctIds(w)}

\* Short videos: every sequence of at most MaxFrames menu frames.
ShortVideos == UNION {[1..n -> FrameMenu] : n \in 0..MaxFrames}

\* Long videos: one menu frame held for the whole initialization window,
\* followed by at most MaxTail menu frames.
LongVideos ==
  UNION {{[i \in 1..(InitWindow + k) |-> IF i <= InitWindow THEN w ELSE tail[i - InitWindow]] :
            w \in FrameMenu, tail \in [1..k -> FrameMenu]} : k \in 1..MaxTail}

InputVideos == ShortVideos \cup LongVideos


\* ------------------------------------------------------------------------
\* PlayerTracker.detect_frame
\* ------------------------------------------------------------------------
\* A box of results.boxes is [id, cls, conf, xyxy]: id = NoId when box.id is
\* None, conf in percent.

\* hash(tuple(box.xyxy.tolist()[0])) % 10000 for the boxes enumerated below
\* (CPython 3.11, 64 bit)
PseudoIdTable ==
  { <<<<550, 548, 650, 748>>, 2783>>,
    <<<<674, 548, 774, 748>>, 7771>>,
    <<<<826, 548, 926, 748>>, 7771>> }

FallbackId(xyxy) == (CHOOSE e \in PseudoIdTable : e[1] = xyxy)[2] % PseudoIdModulus

TrackIdOf(box) == IF box.id # NoId THEN box.id ELSE FallbackId(box.xyxy)

\* Variant of AcceptsPerson: the vertical-position test is left out.
AcceptsPerson_NoPositionTest(box) ==
  LET bbox_width == Width(box.xyxy)
      bbox_height == Height(box.xyxy)
      bbox_area == bbox_width * bbox_height
  IN  /\ box.conf >= MinConfidence
      /\ MinArea <= bbox_area /\ bbox_area <= MaxArea
      /\ bbox_height >= MinHeight
      /\ bbox_width <= MaxWidth
      /\ bbox_width > 0
      /\ bbox_height >= bbox_width
      /\ bbox_height <= 5 * bbox_width

\* the acceptance test of lines 282-288; aspect_ratio is 0 when the width is
\* not positive and bbox_height / bbox_width otherwise
AcceptsPerson(box) ==
  LET bbox_width == Width(box.xyxy)
      bbox_height == Height(box.xyxy)
      bbox_area == bbox_width * bbox_height
  IN  /\ box.conf >= MinConfidence
      /\ MinArea <= bbox_area /\ bbox_area <= MaxArea
      /\ bbox_height >= MinHeight
      /\ bbox_width <= MaxWidth
      /\ bbox_width > 0
      /\ bbox_height >= bbox_width
      /\ bbox_height <= 5 * bbox_width
      /\ 10 * (box.xyxy[2] + box.xyxy[4]) >= 2 * 2 * FrameHeight

RECURSIVE DetectBoxes(_, _)
DetectBoxes(boxes, player_dict) ==
  IF boxes = <<>> THEN player_dict
  ELSE LET box == Head(boxes)
       IN  DetectBoxes(Tail(boxes),
                       IF box.cls = "person" /\ AcceptsPerson(box)
                         THEN Put(player_dict, TrackIdOf(box), box.xyxy)
                         ELSE player_dict)

detect_frame(results) == DetectBoxes(results, <<>>)

\* ------------------------------------------------------------------------
\* Detector outputs enumerated for detect_frame
\* ------------------------------------------------------------------------
Raw(i, cls, conf, xyxy) == [id |-> i, cls |-> cls, conf |-> conf, xyxy |-> xyxy]

RawList ==
  << Raw(1, "person", 90, BoxA),                         \* passes
     Raw(2, "person", 50, <<600, 600, 650, 700>>),       \* conf 0.5, area 5000
     Raw(3, "person", 49, BoxB),                         \* conf 0.49
     Raw(4, "sports ball", 90, BoxB),                    \* not a person
     Raw(5, "person", 90, <<600, 600, 660, 680>>),       \* area 4800
     Raw(6, "person", 90, <<600, 200, 850, 800>>),       \* area 150000, width 250
     Raw(7, "person", 90, <<600, 200, 850, 802>>),       \* area 150500
     Raw(8, "person", 90, <<600, 400, 852, 700>>),       \* width 252
     Raw(9, "person", 90, <<600, 600, 700, 698>>),       \* height/width 0.98
     Raw(10, "person", 90, <<600, 600, 700, 700>>),      \* height/width 1.0
     Raw(11, "person", 90, <<600, 400, 640, 602>>),      \* height/width 5.05
     Raw(12, "person", 90, <<600, 400, 640, 600>>),      \* height/width 5.0
     Raw(13, "person", 90, <<600, 100, 700, 330>>),      \* center_y 215
     Raw(14, "person", 90, <<600, 100, 700, 332>>),      \* center_y 216
     Raw(15, "person", 90, <<600, 648, 660, 706>>),      \* height 58
     Raw(NoId, "person", 90, BoxA),                      \* no track id
     Raw(NoId, "person", 90, <<674, 548, 774, 748>>),    \* no track id
     Raw(NoId, "person", 90, <<826, 548, 926, 748>>) >>  \* no track id

\* results.boxes: at most MaxRaw distinct entries of RawList, in any order
RawFrames ==
  UNION {{f \in [1..n -> 1..Len(RawList)] : \A i, j \in 1..n : i # j => f[i] # f[j]} :
           n \in 0..MaxRaw}

ResultsOf(f) == [i \in 1..Len(f) |-> RawList[f[i]]]

\* ------------------------------------------------------------------------
\* State
\* ------------------------------------------------------------------------
VARIABLES
  player_detections,           \* argument of choose_and_filter_players
  pc,                          \* position in choose_and_filter_players
  frame_idx,                   \* loop index of the running loop
  player_stats,                \* dict of per-track-id statistics
  player_rankings,             \* sorted (id, final_score, appearances)
  player_1_id, player_2_id,    \* canonical identities (NoId = None)
  player_1_last_pos, player_2_last_pos,
  filtered_player_detections,  \* the result list
  track_log                    \* per frame: the track-id entry each identity
                               \* took and its last position before the frame

resolverVars ==
  <<player_detections, pc, frame_idx, player_stats, player_rankings,
    player_1_id, player_2_id, player_1_last_pos, player_2_last_pos,
    filtered_player_detections, track_log>>

\* PlayerTracker.detect_frame
VARIABLES
  results,                     \* results.boxes handed back by model.track
  dfr_player_dict,             \* the dict detect_frame returns
  dfr_pc                       \* "idle", "call", "returned"

detectFrameVars == <<results, dfr_player_dict, dfr_pc>>

\* PlayerTracker.detect_frames
VARIABLES
  video_frames,                \* the frames argument (frame numbers 1..n)
  read_from_stub, stub_path,   \* the other arguments
  df_pc,                       \* position in detect_frames
  df_i,                        \* frames consumed by "for frame in frames"
  df_player_detections,        \* the local list player_detections
  df_result,                   \* the returned list
  df_error,                    \* the exception that left detect_frames
  stub_file,                   \* content of the file at stub_path, or Absent
  stub_at_call,                \* stub_file when detect_frames was called
  stub_writes,                 \* number of pickle.dump calls
  detector_log,                \* frame numbers handed to the detector, in order
  failed_at                    \* frame number on which the detector failed, or 0

detectFramesVars ==
  <<video_frames, read_from_stub, stub_path, df_pc, df_i, df_player_detections,
    df_result, df_error, stub_file, stub_at_call, stub_writes, detector_log,
    failed_at>>

\* main
VARIABLES
  main_pc,                     \* the stage main is at, "except" or "exit"
  stages_run,                  \* the stages main has completed, in order
  main_error,                  \* the exception caught by main's handler
  video_saved                  \* save_video has written the output video

mainVars == <<main_pc, stages_run, main_error, video_saved>>

\* main, lines 159-273: the statistics loop and the per-frame table
VARIABLES
  ball_shot_frames,            \* frame numbers of the shot events
  player_mini_court_detections,\* per frame: dict player id -> position
  ball_mini_court_detections,  \* per frame: position of the ball (key 1)
  player_stats_data,           \* the list of statistics records
  ball_shot_ind,               \* loop index of "for ball_shot_ind in range"
  player_stats_data_df,        \* rows of the merged, filled table
  stats_pc,                    \* "idle", "loop", "table", "done"
  stats_log                    \* per interval visited: "skip" or "append"

statsVars ==
  <<ball_shot_frames, player_mini_court_detections, ball_mini_court_detections,
    player_stats_data, ball_shot_ind, player_stats_data_df, stats_pc, stats_log>>

\* TestBallTracker.detect_frame (ball_detection_optimizer.py)
VARIABLES
  ball_boxes,                  \* results.boxes handed back by model.predict
  ball_dict,                   \* the dict detect_frame returns
  bd_pc                        \* "idle", "call", "returned"

ballDetectVars == <<ball_boxes, ball_dict, bd_pc>>

\* BallTracker.interpolate_ball_positions, called on main line 83
VARIABLES
  ball_detections,             \* per frame: {} or {1: box}
  ball_interpolated,           \* interpolate_ball_positions(ball_detections)
  ball_reinterpolated,         \* the same applied to its own output
  interp_pc                    \* "idle", "start", "once", "twice"

interpVars == <<ball_detections, ball_interpolated, ball_reinterpolated, interp_pc>>

\* BallTracker.get_ball_shot_frames, called on main line 149
VARIABLES
  shot_pc                      \* "idle", "call", "returned"

shotVars == <<shot_pc>>

\* read_video_sampled as called on main lines 54-55, and main line 59
VARIABLES
  rv_start_frame, rv_end_frame,  \* the arguments start_frame and end_frame
  rv_frame_step, rv_max_frames,  \* the arguments frame_step and max_frames
  read_ok,                       \* number of cap.read() calls that succeed
  rv_current_frame,              \* the local current_frame
  rv_frames,                     \* the local list frames, as frame numbers
  sampled_frame_numbers,         \* the list computed on main line 59
  rv_pc                          \* "idle", "loop", "returned", "done"

readVars ==
  <<rv_start_frame, rv_end_frame, rv_frame_step, rv_max_frames, read_ok,
    rv_current_frame, rv_frames, sampled_frame_numbers, rv_pc>>

pipelineVars == <<statsVars, ballDetectVars, interpVars, shotVars, readVars>>

vars == <<resolverVars, detectFrameVars, detectFramesVars, mainVars, pipelineVars>>

\* the file at stub_path: missing, or holding a pickled list
Absent == [exists |-> FALSE, data |-> <<>>]
Stored(list) == [exists |-> TRUE, data |-> list]
NoPath == "None"
NoError == "none"

ResolverIdle ==
  /\ player_detections = <<>>
  /\ pc = "idle"
  /\ frame_idx = 0
  /\ player_stats = <<>>
  /\ player_rankings = <<>>
  /\ player_1_id = NoId
  /\ player_2_id = NoId
  /\ player_1_last_pos = NoPos
  /\ player_2_last_pos = NoPos
  /\ filtered_player_detections = <<>>
  /\ track_log = <<>>

DetectFrameIdle ==
  /\ results = <<>>
  /\ dfr_player_dict = <<>>
  /\ dfr_pc = "idle"

DetectFramesIdle ==
  /\ video_frames = <<>>
  /\ read_from_stub = FALSE
  /\ stub_path = NoPath
  /\ df_pc = "idle"
  /\ df_i = 0
  /\ df_player_detections = <<>>
  /\ df_result = <<>>
  /\ df_error = NoError
  /\ stub_file = Absent
  /\ stub_at_call = Absent
  /\ stub_writes = 0
  /\ detector_log = <<>>
  /\ failed_at = 0

MainIdle ==
  /\ main_pc = "idle"
  /\ stages_run = <<>>
  /\ main_error = NoError
  /\ video_saved = FALSE

StatsIdle ==
  /\ ball_shot_frames = <<>>
  /\ player_mini_court_detections = <<>>
  /\ ball_mini_court_detections = <<>>
  /\ player_stats_data = <<>>
  /\ ball_shot_ind = 0
  /\ player_stats_data_df = <<>>
  /\ stats_pc = "idle"
  /\ stats_log = <<>>

BallDetectIdle ==
  /\ ball_boxes = <<>>
  /\ ball_dict = <<>>
  /\ bd_pc = "idle"

InterpIdle ==
  /\ ball_detections = <<>>
  /\ ball_interpolated = <<>>
  /\ ball_reinterpolated = <<>>
  /\ interp_pc = "idle"

ShotIdle == shot_pc = "idle"

ReadIdle ==
  /\ rv_start_frame = 0
  /\ rv_end_frame = 0
  /\ rv_frame_step = 1
  /\ rv_max_frames = NoMax
  /\ read_ok = 0
  /\ rv_current_frame = 0
  /\ rv_frames = <<>>
  /\ sampled_frame_numbers = <<>>
  /\ rv_pc = "idle"

PipelineIdle == StatsIdle /\ BallDetectIdle /\ InterpIdle /\ ShotIdle /\ ReadIdle

ResolverInit ==
  /\ player_detections \in InputVideos
  /\ pc = "collect"
  /\ frame_idx = 0
  /\ player_stats = <<>>
  /\ player_rankings = <<>>
  /\ player_1_id = NoId
  /\ player_2_id = NoId
  /\ player_1_last_pos = NoPos
  /\ player_2_last_pos = NoPos
  /\ filtered_player_detections = <<>>
  /\ track_log = <<>>
  /\ DetectFrameIdle
  /\ DetectFramesIdle
  /\ MainIdle
  /\ PipelineIdle

WindowLen == Min2(InitWindow, Len(player_detections))

\* lines 19-51: one frame of player_detections[:10]
CollectFrame ==
  /\ pc = "collect"
  /\ frame_idx < WindowLen
  /\ LET player_dict == player_detections[frame_idx + 1]
     IN  player_stats' = RecordCandidates(player_stats, choose_players(player_dict),
                                          player_dict, frame_idx)
  /\ frame_idx' = frame_idx + 1
  /\ UNCHANGED <<player_detections, pc, player_rankings, player_1_id, player_2_id,
                 player_1_last_pos, player_2_last_pos, filtered_player_detections,
                 track_log>>
  /\ UNCHANGED <<detectFrameVars, detectFramesVars, mainVars, pipelineVars>>

\* lines 53-64
ApplyMovementBonus ==
  /\ pc = "collect"
  /\ frame_idx = WindowLen
  /\ player_stats' = AddMovementBonus(player_stats)
  /\ pc' = "select"
  /\ UNCHANGED <<player_detections, frame_idx, player_rankings, player_1_id,
                 player_2_id, player_1_last_pos, player_2_last_pos,
                 filtered_player_detections, track_log>>
  /\ UNCHANGED <<detectFrameVars, detectFramesVars, mainVars, pipelineVars>>

\* lines 66-94
SelectPlayers ==
  /\ pc = "select"
  /\ LET rankings == RankPlayers(player_stats)
         chosen == initial_chosen_players(rankings)
     IN  /\ player_rankings' = rankings
         /\ player_1_id' = IF Len(chosen) >= 1 THEN chosen[1] ELSE NoId
         /\ player_2_id' = IF Len(chosen) >= 2 THEN chosen[2] ELSE NoId
  /\ player_1_last_pos' = NoPos
  /\ player_2_last_pos' = NoPos
  /\ filtered_player_detections' = <<>>
  /\ frame_idx' = 0
  /\ pc' = "track"
  /\ UNCHANGED <<player_detections, player_stats, track_log>>
  /\ UNCHANGED <<detectFrameVars, detectFramesVars, mainVars, pipelineVars>>

\* Variant of TrackFrame: a frame in which no identity is bound gets no
\* record.
TrackFrame_SkipsEmpty ==
  /\ pc = "track"
  /\ frame_idx < Len(player_detections)
  /\ LET t == TrackOneFrame(player_detections[frame_idx + 1], player_1_id, player_2_id,
                            player_1_last_pos, player_2_last_pos)
     IN  /\ filtered_player_detections' =
               IF t.cfp = <<>> THEN filtered_player_detections
               ELSE Append(filtered_player_detections, t.cfp)
         /\ player_1_last_pos' = t.pos1
         /\ player_2_last_pos' = t.pos2
         /\ track_log' = Append(track_log, [src1 |-> t.src1, src2 |-> t.src2,
                                             pre1 |-> player_1_last_pos,
                                             pre2 |-> player_2_last_pos])
  /\ frame_idx' = frame_idx + 1
  /\ UNCHANGED <<player_detections, pc, player_stats, player_rankings,
                 player_1_id, player_2_id>>
  /\ UNCHANGED <<detectFrameVars, detectFramesVars, mainVars, pipelineVars>>

\* lines 96-150
TrackFrame ==
  /\ pc = "track"
  /\ frame_idx < Len(player_detections)
  /\ LET t == TrackOneFrame(player_detections[frame_idx + 1], player_1_id, player_2_id,
                            player_1_last_pos, player_2_last_pos)
     IN  /\ filtered_player_detections' = Append(filtered_player_detections, t.cfp)
         /\ player_1_last_pos' = t.pos1
         /\ player_2_last_pos' = t.pos2
         /\ track_log' = Append(track_log, [src1 |-> t.src1, src2 |-> t.src2,
                                             pre1 |-> player_1_last_pos,
                                             pre2 |-> player_2_last_pos])
  /\ frame_idx' = frame_idx + 1
  /\ UNCHANGED <<player_detections, pc, player_stats, player_rankings,
                 player_1_id, player_2_id>>
  /\ UNCHANGED <<detectFrameVars, detectFramesVars, mainVars, pipelineVars>>

\* lines 152-153
ReturnFiltered ==
  /\ pc = "track"
  /\ frame_idx = Len(player_detections)
  /\ pc' = "done"
  /\ UNCHANGED <<player_detections, frame_idx, player_stats, player_rankings,
                 player_1_id, player_2_id, player_1_last_pos, player_2_last_pos,
                 filtered_player_detections, track_log>>
  /\ UNCHANGED <<detectFrameVars, detectFramesVars, mainVars, pipelineVars>>

ResolverNext ==
  \/ CollectFrame
  \/ ApplyMovementBonus
  \/ SelectPlayers
  \/ TrackFrame
  \/ ReturnFiltered

SpecResolver == ResolverInit /\ [][ResolverNext]_vars

\* ------------------------------------------------------------------------
\* detect_frame as a call: the detector hands back results, the dict returns
\* ------------------------------------------------------------------------
DetectFrameInit ==
  /\ results \in {ResultsOf(f) : f \in RawFrames}
  /\ dfr_player_dict = <<>>
  /\ dfr_pc = "call"
  /\ ResolverIdle
  /\ DetectFramesIdle
  /\ MainIdle
  /\ PipelineIdle

\* lines 240-291
DetectFrameCall ==
  /\ dfr_pc = "call"
  /\ dfr_player_dict' = detect_frame(results)
  /\ dfr_pc' = "returned"
  /\ UNCHANGED <<results, resolverVars, detectFramesVars, mainVars, pipelineVars>>

DetectFrameNext == DetectFrameCall

SpecDetectFrame == DetectFrameInit /\ [][DetectFrameNext]_vars

\* ------------------------------------------------------------------------
\* PlayerTracker.detect_frames
\* ------------------------------------------------------------------------
\* what model.track returns for one frame when it does not fail
DetectorMenu == {SubSeq(RawList, 1, n) : n \in 0..MaxRaw}

\* lists a stub file can hold
StoredDicts == {detect_frame(r) : r \in DetectorMenu}
StoredLists == UNION {[1..n -> StoredDicts] : n \in 0..MaxVideoFrames}

FrameLists == {[i \in 1..n |-> i] : n \in 0..MaxVideoFrames}

\* Variant of ReadsStub: the read_from_stub flag is ignored.
ReadsStub_Never(flag, path) == FALSE

\* "if read_from_stub and stub_path is not None"
ReadsStub(flag, path) == flag /\ path # NoPath

DetectFramesInit ==
  /\ video_frames \in FrameLists
  /\ read_from_stub \in BOOLEAN
  /\ stub_path \in {NoPath, "stub.pkl"}
  /\ stub_file \in {Absent} \cup {Stored(l) : l \in StoredLists}
  /\ stub_at_call = stub_file
  /\ df_pc = "start"
  /\ df_i = 0
  /\ df_player_detections = <<>>
  /\ df_result = <<>>
  /\ df_error = NoError
  /\ stub_writes = 0
  /\ detector_log = <<>>
  /\ failed_at = 0
  /\ ResolverIdle
  /\ DetectFrameIdle
  /\ MainIdle
  /\ PipelineIdle

\* lines 225-228, the file exists: pickle.load and return
DFReadHit ==
  /\ df_pc = "start"
  /\ ReadsStub(read_from_stub, stub_path)
  /\ stub_file.exists
  /\ df_result' = stub_file.data
  /\ df_pc' = "returned"
  /\ UNCHANGED <<video_frames, read_from_stub, stub_path, df_i, df_player_detections,
                 df_error, stub_file, stub_at_call, stub_writes, detector_log, failed_at>>
  /\ UNCHANGED <<resolverVars, detectFrameVars, mainVars, pipelineVars>>

\* lines 225-226, no file at stub_path: open() raises
DFReadMiss ==
  /\ df_pc = "start"
  /\ ReadsStub(read_from_stub, stub_path)
  /\ ~stub_file.exists
  /\ df_error' = "FileNotFoundError"
  /\ df_pc' = "raised"
  /\ UNCHANGED <<video_frames, read_from_stub, stub_path, df_i, df_player_detections,
                 df_result, stub_file, stub_at_call, stub_writes, detector_log, failed_at>>
  /\ UNCHANGED <<resolverVars, detectFrameVars, mainVars, pipelineVars>>

\* line 225 false: fall through to the loop
DFEnterLoop ==
  /\ df_pc = "start"
  /\ ~ReadsStub(read_from_stub, stub_path)
  /\ df_pc' = "loop"
  /\ UNCHANGED <<video_frames, read_from_stub, stub_path, df_i, df_player_detections,
                 df_result, df_error, stub_file, stub_at_call, stub_writes,
                 detector_log, failed_at>>
  /\ UNCHANGED <<resolverVars, detectFrameVars, mainVars, pipelineVars>>

\* lines 230-232, the detector answers
DFDetect ==
  /\ df_pc = "loop"
  /\ df_i < Len(video_frames)
  /\ \E r \in DetectorMenu :
       df_player_detections' = Append(df_player_detections, detect_frame(r))
  /\ detector_log' = Append(detector_log, video_frames[df_i + 1])
  /\ df_i' = df_i + 1
  /\ UNCHANGED <<video_frames, read_from_stub, stub_path, df_pc, df_result, df_error,
                 stub_file, stub_at_call, stub_writes, failed_at>>
  /\ UNCHANGED <<resolverVars, detectFrameVars, mainVars, pipelineVars>>

\* Variant of DFDetectFails: the failure is swallowed, the frame gets an
\* empty dict and the loop goes on.
DFDetectFails_Swallowed ==
  /\ df_pc = "loop"
  /\ df_i < Len(video_frames)
  /\ df_player_detections' = Append(df_player_detections, <<>>)
  /\ detector_log' = Append(detector_log, video_frames[df_i + 1])
  /\ failed_at' = video_frames[df_i + 1]
  /\ df_i' = df_i + 1
  /\ UNCHANGED <<video_frames, read_from_stub, stub_path, df_pc, df_result, df_error,
                 stub_file, stub_at_call, stub_writes>>
  /\ UNCHANGED <<resolverVars, detectFrameVars, mainVars, pipelineVars>>

\* line 231, model.track raises: the exception leaves the loop and the method
DFDetectFails ==
  /\ df_pc = "loop"
  /\ df_i < Len(video_frames)
  /\ detector_log' = Append(detector_log, video_frames[df_i + 1])
  /\ failed_at' = video_frames[df_i + 1]
  /\ df_error' = "DetectorError"
  /\ df_pc' = "raised"
  /\ UNCHANGED <<video_frames, read_from_stub, stub_path, df_i, df_player_detections,
                 df_result, stub_file, stub_at_call, stub_writes>>
  /\ UNCHANGED <<resolverVars, detectFrameVars, mainVars, pipelineVars>>

\* lines 234-236
DFWriteStub ==
  /\ df_pc = "loop"
  /\ df_i = Len(video_frames)
  /\ stub_path # NoPath
  /\ stub_file' = Stored(df_player_detections)
  /\ stub_writes' = stub_writes + 1
  /\ df_pc' = "return"
  /\ UNCHANGED <<video_frames, read_from_stub, stub_path, df_i, df_player_detections,
                 df_result, df_error, stub_at_call, detector_log, failed_at>>
  /\ UNCHANGED <<resolverVars, detectFrameVars, mainVars, pipelineVars>>

\* line 234 false
DFSkipWrite ==
  /\ df_pc = "loop"
  /\ df_i = Len(video_frames)
  /\ stub_path = NoPath
  /\ df_pc' = "return"
  /\ UNCHANGED <<video_frames, read_from_stub, stub_path, df_i, df_player_detections,
                 df_result, df_error, stub_file, stub_at_call, stub_writes,
                 detector_log, failed_at>>
  /\ UNCHANGED <<resolverVars, detectFrameVars, mainVars, pipelineVars>>

\* line 238
DFReturn ==
  /\ df_pc = "return"
  /\ df_result' = df_player_detections
  /\ df_pc' = "returned"
  /\ UNCHANGED <<video_frames, read_from_stub, stub_path, df_i, df_player_detections,
                 df_error, stub_file, stub_at_call, stub_writes, detector_log, failed_at>>
  /\ UNCHANGED <<resolverVars, detectFrameVars, mainVars, pipelineVars>>

DetectFramesNext ==
  \/ DFReadHit
  \/ DFReadMiss
  \/ DFEnterLoop
  \/ DFDetect
  \/ DFDetectFails
  \/ DFWriteStub
  \/ DFSkipWrite
  \/ DFReturn

SpecDetectFrames == DetectFramesInit /\ [][DetectFramesNext]_vars

\* ------------------------------------------------------------------------
\* main: the stages inside "try", and the handler
\* ------------------------------------------------------------------------
MainStages ==
  << "get_video_info", "read_video_sampled", "init_trackers", "detect_players",
     "detect_ball", "interpolate_ball", "court_keypoints",
     "choose_and_filter_players", "detection_statistics", "mini_court",
     "ball_shot_frames", "convert_to_mini_court", "player_stats",
     "stats_dataframe", "draw_output", "save_video" >>

StageIndex(st) == CHOOSE i \in 1..Len(MainStages) : MainStages[i] = st
NextStage(st) ==
  IF StageIndex(st) = Len(MainStages) THEN "exit" ELSE MainStages[StageIndex(st) + 1]
StagesBefore(st) == SubSeq(MainStages, 1, StageIndex(st) - 1)

\* stages this model runs as one step
PlainStages ==
  {MainStages[i] : i \in 1..Len(MainStages)}
    \ {"read_video_sampled", "detect_players", "save_video"}

MainInit ==
  /\ main_pc = "get_video_info"
  /\ stages_run = <<>>
  /\ main_error = NoError
  /\ video_saved = FALSE
  /\ video_frames = <<>>
  /\ read_from_stub = FALSE
  /\ stub_path = NoPath
  /\ stub_file \in {Absent} \cup {Stored(l) : l \in StoredLists}
  /\ stub_at_call = stub_file
  /\ df_pc = "idle"
  /\ df_i = 0
  /\ df_player_detections = <<>>
  /\ df_result = <<>>
  /\ df_error = NoError
  /\ stub_writes = 0
  /\ detector_log = <<>>
  /\ failed_at = 0
  /\ ResolverIdle
  /\ DetectFrameIdle
  /\ PipelineIdle

\* a stage completes; video_frames[0] (lines 91, 144) needs a frame and
\* line 126 divides by the number of frames
MainRunStage ==
  /\ main_pc \in PlainStages
  /\ main_pc \in {"court_keypoints", "detection_statistics", "mini_court"}
       => Len(video_frames) > 0
  /\ stages_run' = Append(stages_run, main_pc)
  /\ main_pc' = NextStage(main_pc)
  /\ UNCHANGED <<main_error, video_saved, resolverVars, pipelineVars, detectFrameVars, detectFramesVars>>

\* a stage raises (missing file, model failure, IndexError, ...): line 300
MainStageFails ==
  /\ main_pc \in PlainStages \cup {"read_video_sampled", "save_video"}
  /\ main_error' = main_pc
  /\ main_pc' = "except"
  /\ UNCHANGED <<stages_run, video_saved, resolverVars, pipelineVars, detectFrameVars, detectFramesVars>>

\* lines 54-55
MainReadVideo ==
  /\ main_pc = "read_video_sampled"
  /\ video_frames' \in FrameLists
  /\ stages_run' = Append(stages_run, main_pc)
  /\ main_pc' = NextStage(main_pc)
  /\ UNCHANGED <<read_from_stub, stub_path, df_pc, df_i, df_player_detections,
                 df_result, df_error, stub_file, stub_at_call, stub_writes,
                 detector_log, failed_at>>
  /\ UNCHANGED <<main_error, video_saved, resolverVars, pipelineVars, detectFrameVars>>

\* lines 69-72: detect_frames(video_frames, read_from_stub=False, stub_path=...)
MainCallDetectFrames ==
  /\ main_pc = "detect_players"
  /\ df_pc = "idle"
  /\ read_from_stub' = FALSE
  /\ stub_path' = "tracker_stubs/player_detections.pkl"
  /\ stub_at_call' = stub_file
  /\ df_pc' = "start"
  /\ UNCHANGED <<video_frames, df_i, df_player_detections, df_result, df_error,
                 stub_file, stub_writes, detector_log, failed_at>>
  /\ UNCHANGED <<mainVars, pipelineVars, resolverVars, detectFrameVars>>

\* line 69: the call returns
MainDetectReturned ==
  /\ main_pc = "detect_players"
  /\ df_pc = "returned"
  /\ stages_run' = Append(stages_run, main_pc)
  /\ main_pc' = NextStage(main_pc)
  /\ UNCHANGED <<main_error, video_saved, resolverVars, pipelineVars, detectFrameVars, detectFramesVars>>

\* line 300: the exception of detect_frames is caught
MainCatch ==
  /\ main_pc = "detect_players"
  /\ df_pc = "raised"
  /\ main_error' = df_error
  /\ main_pc' = "except"
  /\ UNCHANGED <<stages_run, video_saved, resolverVars, pipelineVars, detectFrameVars, detectFramesVars>>

\* lines 301-303
MainHandle ==
  /\ main_pc = "except"
  /\ main_pc' = "exit"
  /\ UNCHANGED <<stages_run, main_error, video_saved, resolverVars, pipelineVars, detectFrameVars,
                 detectFramesVars>>

\* line 297
MainSaveVideo ==
  /\ main_pc = "save_video"
  /\ video_saved' = TRUE
  /\ stages_run' = Append(stages_run, main_pc)
  /\ main_pc' = NextStage(main_pc)
  /\ UNCHANGED <<main_error, resolverVars, pipelineVars, detectFrameVars, detectFramesVars>>

MainNext ==
  \/ MainRunStage
  \/ MainStageFails
  \/ MainReadVideo
  \/ MainCallDetectFrames
  \/ DFEnterLoop
  \/ DFDetect
  \/ DFDetectFails
  \/ DFWriteStub
  \/ DFReturn
  \/ MainDetectReturned
  \/ MainCatch
  \/ MainHandle
  \/ MainSaveVideo

SpecMain == MainInit /\ [][MainNext]_vars

\* ------------------------------------------------------------------------
\* main: the statistics loop (lines 159-261)
\* ------------------------------------------------------------------------
\* constants.DOUBLE_LINE_WIDTH (10.97 m) in centimetres, and the width of
\* the mini court in pixels
DoubleLineWidthCm == 1097
MiniCourtWidth == 210

convert_pixel_distance_to_meters(pixel_distance, reference_cm, reference_px) ==
  Frac(pixel_distance * reference_cm, 100 * reference_px)

\* meters / ((end_frame-start_frame)/24) * 3.6
SpeedKmh(meters, frame_gap) == FMul(meters, Frac(AssumedFps * 36, frame_gap * 10))

\* list[frame] for a frame number counted from 0
AtFrame(list, frame) == list[frame + 1]

PlayerSlots == {1, 2}

ZeroPlayerStats ==
  [number_of_shots |-> 0,
   total_shot_speed |-> FInt(0), last_shot_speed |-> FInt(0),
   total_player_speed |-> FInt(0), last_player_speed |-> FInt(0)]

\* lines 160-173
InitialStats == [frame_num |-> 0, player |-> [p \in PlayerSlots |-> ZeroPlayerStats]]

\* line 210: min(player_positions.keys(), key=distance to the ball); the
\* first key in dict order among the nearest
player_shot_ball(player_positions, ball) ==
  LET dist(i) == measure_distance(player_positions[i].bbox, ball)
      best == CHOOSE i \in 1..Len(player_positions) :
                \A j \in 1..Len(player_positions) :
                  /\ dist(i) <= dist(j)
                  /\ j < i => dist(j) > dist(i)
  IN  player_positions[best].id

\* lines 220-224: the first key that is not the shooter, or None
opponent_player_id(player_positions, shooter) ==
  LET others == {i \in 1..Len(player_positions) : player_positions[i].id # shooter}
  IN  IF others = {} THEN NoId
      ELSE player_positions[CHOOSE i \in others : \A j \in others : i <= j].id

\* lines 246-250: ids of the start frame in sorted order, the first two
\* mapped to 1 and 2; .get(id, default)
MappedSlot(player_positions, id, default) ==
  LET rank == Cardinality({k \in Keys(player_positions) : k < id})
  IN  IF HasKey(player_positions, id) /\ rank < 2 THEN rank + 1 ELSE default

\* Variant of SkipsInterval: an interval is also skipped when its end frame
\* holds fewer than two player positions.
SkipsInterval_NeedsBothAtEnd(start_frame, end_frame) ==
  IF \/ start_frame >= Len(video_frames)
     \/ end_frame >= Len(video_frames)
    THEN TRUE
  ELSE \/ Len(AtFrame(player_mini_court_detections, start_frame)) < 2
       \/ Len(AtFrame(player_mini_court_detections, end_frame)) < 2

\* the "continue" tests of lines 180, 184-187, 206, 215, 226, 231-232
SkipsInterval(start_frame, end_frame) ==
  IF \/ start_frame >= Len(video_frames)
     \/ end_frame >= Len(video_frames)
    THEN TRUE
  ELSE IF \/ start_frame >= Len(player_mini_court_detections)
          \/ end_frame >= Len(player_mini_court_detections)
    THEN TRUE
  ELSE IF \/ Len(AtFrame(player_mini_court_detections, start_frame)) = 0
          \/ Len(AtFrame(player_mini_court_detections, end_frame)) = 0
    THEN TRUE
  ELSE LET player_positions == AtFrame(player_mini_court_detections, start_frame)
           shooter == player_shot_ball(player_positions,
                                       AtFrame(ball_mini_court_detections, start_frame))
           opponent == opponent_player_id(player_positions, shooter)
       IN  \/ Len(player_positions) < 2
           \/ opponent = NoId
           \/ ~HasKey(player_positions, opponent)
           \/ ~HasKey(AtFrame(player_mini_court_detections, end_frame), opponent)

\* Variant of NextStats: the record starts from the initial record instead
\* of a copy of the last one, so nothing is carried forward.
NextStats_FromInitial(previous, start_frame, end_frame) ==
  LET frame_gap == end_frame - start_frame
      ball_pixels == measure_distance(AtFrame(ball_mini_court_detections, start_frame),
                                      AtFrame(ball_mini_court_detections, end_frame))
      speed_of_ball_shot ==
        SpeedKmh(convert_pixel_distance_to_meters(ball_pixels, DoubleLineWidthCm,
                                                  MiniCourtWidth), frame_gap)
      player_positions == AtFrame(player_mini_court_detections, start_frame)
      shooter == player_shot_ball(player_positions,
                                  AtFrame(ball_mini_court_detections, start_frame))
      opponent == opponent_player_id(player_positions, shooter)
      opponent_pixels ==
        measure_distance(Get(AtFrame(player_mini_court_detections, start_frame), opponent),
                         Get(AtFrame(player_mini_court_detections, end_frame), opponent))
      speed_of_opponent ==
        SpeedKmh(convert_pixel_distance_to_meters(opponent_pixels, DoubleLineWidthCm,
                                                  MiniCourtWidth), frame_gap)
      ms == MappedSlot(player_positions, shooter, 1)
      mo == MappedSlot(player_positions, opponent, 2)
  IN  [InitialStats EXCEPT
         !.frame_num = start_frame,
         !.player[ms].number_of_shots = 1,
         !.player[ms].total_shot_speed = speed_of_ball_shot,
         !.player[ms].last_shot_speed = speed_of_ball_shot,
         !.player[mo].total_player_speed = speed_of_opponent,
         !.player[mo].last_player_speed = speed_of_opponent]

\* lines 191-259 for an interval that is not skipped
NextStats(previous, start_frame, end_frame) ==
  LET frame_gap == end_frame - start_frame
      ball_pixels == measure_distance(AtFrame(ball_mini_court_detections, start_frame),
                                      AtFrame(ball_mini_court_detections, end_frame))
      speed_of_ball_shot ==
        SpeedKmh(convert_pixel_distance_to_meters(ball_pixels, DoubleLineWidthCm,
                                                  MiniCourtWidth), frame_gap)
      player_positions == AtFrame(player_mini_court_detections, start_frame)
      shooter == player_shot_ball(player_positions,
                                  AtFrame(ball_mini_court_detections, start_frame))
      opponent == opponent_player_id(player_positions, shooter)
      opponent_pixels ==
        measure_distance(Get(AtFrame(player_mini_court_detections, start_frame), opponent),
                         Get(AtFrame(player_mini_court_detections, end_frame), opponent))
      speed_of_opponent ==
        SpeedKmh(convert_pixel_distance_to_meters(opponent_pixels, DoubleLineWidthCm,
                                                  MiniCourtWidth), frame_gap)
      ms == MappedSlot(player_positions, shooter, 1)
      mo == MappedSlot(player_positions, opponent, 2)
      shot == [previous EXCEPT
                 !.frame_num = start_frame,
                 !.player[ms].number_of_shots = @ + 1,
                 !.player[ms].total_shot_speed = FAdd(@, speed_of_ball_shot),
                 !.player[ms].last_shot_speed = speed_of_ball_shot]
  IN  [shot EXCEPT
         !.player[mo].total_player_speed = FAdd(@, speed_of_opponent),
         !.player[mo].last_player_speed = speed_of_opponent]

\* ------------------------------------------------------------------------
\* main: the per-frame table (lines 263-273)
\* ------------------------------------------------------------------------
\* .replace(0, 1)
ReplaceZero(k) == IF k = 0 THEN 1 ELSE k

\* lines 270-273
WithAverages(row) ==
  [frame_num |-> row.frame_num,
   player |-> [p \in PlayerSlots |->
     [number_of_shots |-> row.player[p].number_of_shots,
      total_shot_speed |-> row.player[p].total_shot_speed,
      last_shot_speed |-> row.player[p].last_shot_speed,
      total_player_speed |-> row.player[p].total_player_speed,
      last_player_speed |-> row.player[p].last_player_speed,
      average_shot_speed |->
        FDivInt(row.player[p].total_shot_speed,
                ReplaceZero(row.player[p].number_of_shots)),
      average_player_speed |->
        FDivInt(row.player[p].total_player_speed,
                ReplaceZero(row.player[p].number_of_shots))]]]

RecordsOfFrame(data, frame) == SelectSeq(data, LAMBDA r : r.frame_num = frame)

\* lines 265-267: left merge of the frame numbers 0..n-1 with the records
\* on frame_num, then ffill of the rows without a record
RECURSIVE MergeAndFill(_, _, _, _)
MergeAndFill(data, frame, n, last) ==
  IF frame >= n THEN <<>>
  ELSE LET own == RecordsOfFrame(data, frame)
           rows == IF own = <<>>
                     THEN << [frame_num |-> frame, player |-> last.player] >>
                     ELSE own
       IN  rows \o MergeAndFill(data, frame + 1, n, rows[Len(rows)])

StatsTable(data, n) ==
  LET merged == MergeAndFill(data, 0, n, InitialStats)
  IN  [i \in 1..Len(merged) |-> WithAverages(merged[i])]

\* ------------------------------------------------------------------------
\* Inputs of the statistics loop
\* ------------------------------------------------------------------------
PosA == <<0, 0>>
PosB == <<35, 0>>
PosC == <<70, 0>>

Pos(i, p) == [id |-> i, bbox |-> p]

\* one frame after the mini-court conversion: the positions of the bound
\* players, in dict order, and the position of the ball
SceneMenu ==
  { [players |-> <<>>, ball |-> PosA],
    [players |-> <<Pos(1, PosA)>>, ball |-> PosA],
    [players |-> <<Pos(2, PosC)>>, ball |-> PosC],
    [players |-> <<Pos(1, PosA), Pos(2, PosC)>>, ball |-> PosA],
    [players |-> <<Pos(1, PosB), Pos(2, PosC)>>, ball |-> PosC],
    [players |-> <<Pos(2, PosC), Pos(1, PosA)>>, ball |-> PosB],
    [players |-> <<Pos(1, PosA), Pos(2, PosB)>>, ball |-> PosC] }

SceneLists == UNION {[1..n -> SceneMenu] : n \in 1..MaxStatFrames}

\* strictly increasing frame numbers; a frame number can lie past the frames
RECURSIVE IncreasingFrom(_, _)
IncreasingFrom(lo, hi) ==
  IF lo > hi THEN {<<>>}
  ELSE IncreasingFrom(lo + 1, hi)
         \cup {<<lo>> \o t : t \in IncreasingFrom(lo + 1, hi)}

ShotFrameLists == IncreasingFrom(0, MaxStatFrames)

StatsInit ==
  /\ \E scenes \in SceneLists :
       /\ video_frames = [i \in 1..Len(scenes) |-> i]
       /\ player_mini_court_detections = [i \in 1..Len(scenes) |-> scenes[i].players]
       /\ ball_mini_court_detections = [i \in 1..Len(scenes) |-> scenes[i].ball]
  /\ ball_shot_frames \in ShotFrameLists
  /\ player_stats_data = <<InitialStats>>
  /\ ball_shot_ind = 0
  /\ player_stats_data_df = <<>>
  /\ stats_pc = "loop"
  /\ stats_log = <<>>
  /\ read_from_stub = FALSE
  /\ stub_path = NoPath
  /\ df_pc = "idle"
  /\ df_i = 0
  /\ df_player_detections = <<>>
  /\ df_result = <<>>
  /\ df_error = NoError
  /\ stub_file = Absent
  /\ stub_at_call = Absent
  /\ stub_writes = 0
  /\ detector_log = <<>>
  /\ failed_at = 0
  /\ ResolverIdle
  /\ DetectFrameIdle
  /\ MainIdle
  /\ BallDetectIdle
  /\ InterpIdle
  /\ ShotIdle
  /\ ReadIdle

StatsUnchanged ==
  UNCHANGED <<ball_shot_frames, player_mini_court_detections,
              ball_mini_court_detections, resolverVars, detectFrameVars,
              detectFramesVars, mainVars, ballDetectVars, interpVars, shotVars, readVars>>

\* one pass of the loop body that ends in a "continue"
StatsSkipInterval ==
  /\ stats_pc = "loop"
  /\ ball_shot_ind < Len(ball_shot_frames) - 1
  /\ SkipsInterval(ball_shot_frames[ball_shot_ind + 1], ball_shot_frames[ball_shot_ind + 2])
  /\ ball_shot_ind' = ball_shot_ind + 1
  /\ stats_log' = Append(stats_log, "skip")
  /\ UNCHANGED <<player_stats_data, player_stats_data_df, stats_pc>>
  /\ StatsUnchanged

\* one pass of the loop body that reaches line 261
StatsAppendRecord ==
  /\ stats_pc = "loop"
  /\ ball_shot_ind < Len(ball_shot_frames) - 1
  /\ ~SkipsInterval(ball_shot_frames[ball_shot_ind + 1], ball_shot_frames[ball_shot_ind + 2])
  /\ player_stats_data' =
       Append(player_stats_data,
              NextStats(player_stats_data[Len(player_stats_data)],
                        ball_shot_frames[ball_shot_ind + 1],
                        ball_shot_frames[ball_shot_ind + 2]))
  /\ ball_shot_ind' = ball_shot_ind + 1
  /\ stats_log' = Append(stats_log, "append")
  /\ UNCHANGED <<player_stats_data_df, stats_pc>>
  /\ StatsUnchanged

\* the loop is exhausted
StatsLoopEnds ==
  /\ stats_pc = "loop"
  /\ ball_shot_ind >= Len(ball_shot_frames) - 1
  /\ stats_pc' = "table"
  /\ UNCHANGED <<player_stats_data, ball_shot_ind, player_stats_data_df, stats_log>>
  /\ StatsUnchanged

\* lines 263-273
StatsBuildTable ==
  /\ stats_pc = "table"
  /\ player_stats_data_df' = StatsTable(player_stats_data, Len(video_frames))
  /\ stats_pc' = "done"
  /\ UNCHANGED <<player_stats_data, ball_shot_ind, stats_log>>
  /\ StatsUnchanged

StatsNext ==
  \/ StatsSkipInterval
  \/ StatsAppendRecord
  \/ StatsLoopEnds
  \/ StatsBuildTable

SpecStats == StatsInit /\ [][StatsNext]_vars

\* ------------------------------------------------------------------------
\* TestBallTracker.detect_frame (ball_detection_optimizer.py, lines 26-33)
\* ------------------------------------------------------------------------
\* Variant of BallLoop: the loop has no "break", the last box stays.
RECURSIVE BallLoop_NoBreak(_, _)
BallLoop_NoBreak(boxes, dict) ==
  IF boxes = <<>> THEN dict
  ELSE BallLoop_NoBreak(Tail(boxes), Put(dict, 1, Head(boxes).xyxy))

\* lines 29-32: "for box in results.boxes: ball_dict[1] = result; break"
BallLoop(boxes, dict) ==
  IF boxes = <<>> THEN dict
  ELSE Put(dict, 1, Head(boxes).xyxy)

\* lines 26-33
ball_detect_frame(boxes) == BallLoop(boxes, <<>>)

BallBox(b, conf) == [xyxy |-> b, conf |-> conf]

\* boxes the ball detector can report, two of them with equal confidence
BallBoxMenu ==
  << BallBox(<<100, 100, 120, 120>>, 90),
     BallBox(<<300, 200, 320, 220>>, 60),
     BallBox(<<500, 300, 520, 320>>, 60),
     BallBox(<<700, 400, 720, 420>>, 30),
     BallBox(<<900, 500, 920, 520>>, 15) >>

\* results.boxes: at most MaxBallBoxes distinct boxes, in any order
BallBoxLists ==
  UNION {{[i \in 1..n |-> BallBoxMenu[f[i]]] :
            f \in {g \in [1..n -> 1..Len(BallBoxMenu)] :
                     \A i, j \in 1..n : i # j => g[i] # g[j]}} :
         n \in 0..MaxBallBoxes}

BallDetectInit ==
  /\ ball_boxes \in BallBoxLists
  /\ ball_dict = <<>>
  /\ bd_pc = "call"
  /\ ResolverIdle
  /\ DetectFrameIdle
  /\ DetectFramesIdle
  /\ MainIdle
  /\ StatsIdle
  /\ InterpIdle
  /\ ShotIdle
  /\ ReadIdle

BallDetectCall ==
  /\ bd_pc = "call"
  /\ ball_dict' = ball_detect_frame(ball_boxes)
  /\ bd_pc' = "returned"
  /\ UNCHANGED <<ball_boxes, resolverVars, detectFrameVars, detectFramesVars,
                 mainVars, statsVars, interpVars, shotVars, readVars>>

BallDetectNext == BallDetectCall

SpecBallDetect == BallDetectInit /\ [][BallDetectNext]_vars

\* ------------------------------------------------------------------------
\* BallTracker.interpolate_ball_positions
\* ------------------------------------------------------------------------
\* a row of NaN
NoBox == <<>>

FSub(a, b) == FAdd(a, [n |-> 0 - b.n, d |-> b.d])

\* x.get(1, []) for every frame: the four coordinates, or a row of NaN
RowsOf(detections) ==
  [i \in 1..Len(detections) |->
     IF HasKey(detections[i], 1) THEN Get(detections[i], 1) ELSE NoBox]

\* [{1: x} for x in rows]
DictsOf(rows) == [i \in 1..Len(rows) |-> <<[id |-> 1, bbox |-> rows[i]]>>]

ValidBefore(rows, i) == {k \in 1..(i - 1) : rows[k] # NoBox}
ValidAfter(rows, i) == {k \in (i + 1)..Len(rows) : rows[k] # NoBox}
LastOf(S) == CHOOSE k \in S : \A m \in S : m <= k
FirstOf(S) == CHOOSE k \in S : \A m \in S : k <= m

\* the point at index i of the line through (lo, a) and (hi, b)
OnLine(a, b, lo, hi, i) == FAdd(a, FMul(FSub(b, a), Frac(i - lo, hi - lo)))

\* Variant of LinearInterpolate: a gap takes the box before it.
LinearInterpolate_Step(rows) ==
  [i \in 1..Len(rows) |->
     IF rows[i] # NoBox \/ ValidBefore(rows, i) = {} \/ ValidAfter(rows, i) = {}
       THEN rows[i]
       ELSE rows[LastOf(ValidBefore(rows, i))]]

\* linear interpolation of each coordinate over the gaps that have a
\* detection on both sides
LinearInterpolate(rows) ==
  [i \in 1..Len(rows) |->
     IF rows[i] # NoBox \/ ValidBefore(rows, i) = {} \/ ValidAfter(rows, i) = {}
       THEN rows[i]
       ELSE LET lo == LastOf(ValidBefore(rows, i))
                hi == FirstOf(ValidAfter(rows, i))
            IN  [c \in 1..4 |-> OnLine(rows[lo][c], rows[hi][c], lo, hi, i)]]

\* ffill: a gap takes the last box before it
ForwardFill(rows) ==
  [i \in 1..Len(rows) |->
     IF rows[i] # NoBox \/ ValidBefore(rows, i) = {} THEN rows[i]
     ELSE rows[LastOf(ValidBefore(rows, i))]]

\* bfill: a gap takes the first box after it
BackwardFill(rows) ==
  [i \in 1..Len(rows) |->
     IF rows[i] # NoBox \/ ValidAfter(rows, i) = {} THEN rows[i]
     ELSE rows[FirstOf(ValidAfter(rows, i))]]

interpolate_ball_positions(ball_positions) ==
  DictsOf(BackwardFill(ForwardFill(LinearInterpolate(RowsOf(ball_positions)))))

FBox(b) == [c \in 1..4 |-> FInt(b[c])]

\* what the ball detector returns for a frame: nothing, or one box
BallFrameMenu ==
  { <<>>,
    <<[id |-> 1, bbox |-> FBox(<<100, 100, 120, 120>>)]>>,
    <<[id |-> 1, bbox |-> FBox(<<200, 200, 220, 220>>)]>>,
    <<[id |-> 1, bbox |-> FBox(<<101, 90, 121, 110>>)]>> }

BallSequences == UNION {[1..n -> BallFrameMenu] : n \in 1..MaxBallFrames}

InterpInit ==
  /\ ball_detections \in BallSequences
  /\ ball_interpolated = <<>>
  /\ ball_reinterpolated = <<>>
  /\ interp_pc = "start"
  /\ ResolverIdle
  /\ DetectFrameIdle
  /\ DetectFramesIdle
  /\ MainIdle
  /\ StatsIdle
  /\ BallDetectIdle
  /\ ShotIdle
  /\ ReadIdle

\* main line 83
Interpolate ==
  /\ interp_pc = "start"
  /\ ball_interpolated' = interpolate_ball_positions(ball_detections)
  /\ interp_pc' = "once"
  /\ UNCHANGED <<ball_detections, ball_reinterpolated, resolverVars, detectFrameVars,
                 detectFramesVars, mainVars, statsVars, ballDetectVars, shotVars, readVars>>

\* the interpolation applied to its own output
InterpolateAgain ==
  /\ interp_pc = "once"
  /\ ball_reinterpolated' = interpolate_ball_positions(ball_interpolated)
  /\ interp_pc' = "twice"
  /\ UNCHANGED <<ball_detections, ball_interpolated, resolverVars, detectFrameVars,
                 detectFramesVars, mainVars, statsVars, ballDetectVars, shotVars, readVars>>

InterpNext == Interpolate \/ InterpolateAgain

SpecInterpolate == InterpInit /\ [][InterpNext]_vars

\* ------------------------------------------------------------------------
\* BallTracker.get_ball_shot_frames
\* ------------------------------------------------------------------------
RollingWindow == 5
Lookback == 1
MinShotSpacing == 25

\* the vertical centre (y1 + y2) / 2 of every frame
MidY(rows) == [i \in 1..Len(rows) |-> FDivInt(FAdd(rows[i][2], rows[i][4]), 2)]

HalfWindow == RollingWindow \div 2

\* the centred rolling mean has a value where the whole window lies inside
Smoothable(n, i) == i - HalfWindow >= 1 /\ i + HalfWindow <= n

RECURSIVE FSum(_, _, _)
FSum(f, lo, hi) == IF lo > hi THEN FInt(0) ELSE FAdd(f[lo], FSum(f, lo + 1, hi))

Smoothed(mid, i) == FDivInt(FSum(mid, i - HalfWindow, i + HalfWindow), RollingWindow)

\* a local minimum: smoothed value below that of every neighbour within the
\* span that has a smoothed value
IsMinimumCandidate(mid, i) ==
  /\ Smoothable(Len(mid), i)
  /\ \A k \in (i - Lookback)..(i + Lookback) :
       (k # i /\ Smoothable(Len(mid), k)) => FLess(Smoothed(mid, i), Smoothed(mid, k))

\* frame numbers (from 0) of the candidates, in increasing order
RECURSIVE CandidatesFrom(_, _)
CandidatesFrom(mid, i) ==
  IF i > Len(mid) THEN <<>>
  ELSE (IF IsMinimumCandidate(mid, i) THEN <<i - 1>> ELSE <<>>)
         \o CandidatesFrom(mid, i + 1)

\* Variant of KeepFirstOfClusters: every candidate is kept.
KeepFirstOfClusters_KeepAll(candidates) == candidates

\* of each run of candidates closer together than the spacing, the first
KeepFirstOfClusters(candidates) ==
  LET first == {i \in 1..Len(candidates) :
                  i = 1 \/ candidates[i] - candidates[i - 1] >= MinShotSpacing}
      nth(k) == CHOOSE i \in first : Cardinality({j \in first : j < i}) = k - 1
  IN  [k \in 1..Cardinality(first) |-> candidates[nth(k)]]

get_ball_shot_frames(ball_positions) ==
  KeepFirstOfClusters(CandidatesFrom(MidY(RowsOf(ball_positions)), 1))

\* frames (from 1) at which a trajectory can dip
DipMenu == {3, 5, 9, 14, 20, 28, 30, 32}

DistanceToDip(dips, t) ==
  IF dips = {} THEN 4
  ELSE LET d == CHOOSE x \in dips : \A y \in dips : Abs(t - x) <= Abs(t - y)
       IN  Min2(4, Abs(t - d))

\* a gap-free trajectory whose top edge follows a V around every dip
Trajectory(dips, n) ==
  [t \in 1..n |->
     <<[id |-> 1,
        bbox |-> FBox(<<100, 500 + 10 * DistanceToDip(dips, t),
                        120, 520 + 10 * DistanceToDip(dips, t)>>)]>>]

Trajectories ==
  {Trajectory(dips, n) : dips \in SUBSET DipMenu, n \in (MaxTrajectory - 2)..MaxTrajectory}

ShotsInit ==
  /\ ball_detections \in Trajectories
  /\ ball_interpolated = <<>>
  /\ ball_reinterpolated = <<>>
  /\ interp_pc = "idle"
  /\ shot_pc = "call"
  /\ ResolverIdle
  /\ DetectFrameIdle
  /\ DetectFramesIdle
  /\ MainIdle
  /\ StatsIdle
  /\ BallDetectIdle
  /\ ReadIdle

\* main line 149
GetBallShotFrames ==
  /\ shot_pc = "call"
  /\ ball_shot_frames' = get_ball_shot_frames(ball_detections)
  /\ shot_pc' = "returned"
  /\ UNCHANGED <<player_mini_court_detections, ball_mini_court_detections,
                 player_stats_data, ball_shot_ind, player_stats_data_df, stats_pc,
                 stats_log>>
  /\ UNCHANGED <<resolverVars, detectFrameVars, detectFramesVars, mainVars,
                 ballDetectVars, interpVars, readVars>>

ShotsNext == GetBallShotFrames

SpecShots == ShotsInit /\ [][ShotsNext]_vars

\* ------------------------------------------------------------------------
\* read_video_sampled (video_utils.py, lines 49-91) and main line 59
\* ------------------------------------------------------------------------
\* list(range(start, stop, step)) for step >= 1
PyRange(start, stop, step) ==
  LET len == IF stop <= start THEN 0 ELSE (stop - start + step - 1) \div step
  IN  [i \in 1..len |-> start + (i - 1) * step]

\* Variant of SampledFrameNumbers: the whole range up to end_frame, whatever
\* the number of frames read.
SampledFrameNumbers_FullRange(start, end, step, frames_read) ==
  PyRange(start, end, step)

\* main line 59
SampledFrameNumbers(start, end, step, frames_read) ==
  PyRange(start, Min2(end, start + frames_read * step), step)

\* the call of main lines 54-55: a frame range, a step and a limit (None in
\* main); lines 63-71 with end_frame given
ReadInit ==
  /\ rv_start_frame \in 0..MaxStart
  /\ rv_end_frame \in rv_start_frame..(rv_start_frame + MaxSpan)
  /\ rv_frame_step \in 1..MaxStep
  /\ rv_max_frames \in {NoMax} \cup 1..MaxLimit
  /\ read_ok \in 0..MaxSpan
  /\ rv_current_frame = rv_start_frame
  /\ rv_frames = <<>>
  /\ sampled_frame_numbers = <<>>
  /\ rv_pc = "loop"
  /\ ResolverIdle
  /\ DetectFrameIdle
  /\ DetectFramesIdle
  /\ MainIdle
  /\ StatsIdle
  /\ BallDetectIdle
  /\ InterpIdle
  /\ ShotIdle

ReadUnchanged ==
  UNCHANGED <<rv_start_frame, rv_end_frame, rv_frame_step, rv_max_frames, read_ok,
              resolverVars, detectFrameVars, detectFramesVars, mainVars,
              statsVars, ballDetectVars, interpVars, shotVars>>

\* lines 73-88, cap.read() succeeds: the frame at current_frame is appended,
\* then the limit ends the loop or current_frame moves on by frame_step
RVReadFrame ==
  /\ rv_pc = "loop"
  /\ rv_current_frame < rv_end_frame
  /\ Len(rv_frames) < read_ok
  /\ rv_frames' = Append(rv_frames, rv_current_frame)
  /\ IF rv_max_frames # NoMax /\ Len(rv_frames) + 1 >= rv_max_frames
       THEN rv_pc' = "returned" /\ UNCHANGED rv_current_frame
       ELSE rv_current_frame' = rv_current_frame + rv_frame_step /\ UNCHANGED rv_pc
  /\ UNCHANGED sampled_frame_numbers
  /\ ReadUnchanged

\* lines 73-79, cap.read() returns ret = False: break, release, return
RVReadFails ==
  /\ rv_pc = "loop"
  /\ rv_current_frame < rv_end_frame
  /\ Len(rv_frames) >= read_ok
  /\ rv_pc' = "returned"
  /\ UNCHANGED <<rv_current_frame, rv_frames, sampled_frame_numbers>>
  /\ ReadUnchanged

\* line 73 false: release, return
RVLoopEnds ==
  /\ rv_pc = "loop"
  /\ rv_current_frame >= rv_end_frame
  /\ rv_pc' = "returned"
  /\ UNCHANGED <<rv_current_frame, rv_frames, sampled_frame_numbers>>
  /\ ReadUnchanged

\* main line 59, with video_frames the returned list
MainSampledFrameNumbers ==
  /\ rv_pc = "returned"
  /\ sampled_frame_numbers' =
       SampledFrameNumbers(rv_start_frame, rv_end_frame, rv_frame_step, Len(rv_frames))
  /\ rv_pc' = "done"
  /\ UNCHANGED <<rv_current_frame, rv_frames>>
  /\ ReadUnchanged

ReadNext ==
  \/ RVReadFrame
  \/ RVReadFails
  \/ RVLoopEnds
  \/ MainSampledFrameNumbers

SpecRead == ReadInit /\ [][ReadNext]_vars

\* the loop is sequential code: a step that can be taken is taken
SpecReadFair == SpecRead /\ WF_vars(ReadNext)

\* ------------------------------------------------------------------------
\* Properties of the player identity resolver
\* ------------------------------------------------------------------------
NumOut == Len(filtered_player_detections)
AllOutputKeys == UNION {Keys(filtered_player_detections[i]) : i \in 1..NumOut}
AllInputIds == UNION {Keys(player_detections[i]) : i \in 1..Len(player_detections)}
WindowIds == UNION {Keys(player_detections[i]) : i \in 1..WindowLen}
Selected == pc \in {"track", "done"}
Assigned == {player_1_id, player_2_id} \ {NoId}

CanonId(k) == IF k = 1 THEN player_1_id ELSE player_2_id
Src(i, k) == IF k = 1 THEN track_log[i].src1 ELSE track_log[i].src2
Pre(i, k) == IF k = 1 THEN track_log[i].pre1 ELSE track_log[i].pre2
Other(k) == 3 - k
Rebound(i, k) == Src(i, k) # NoId /\ Src(i, k) # CanonId(k)
CenterOfId(i, tid) == get_center_of_bbox(Get(player_detections[i], tid))
WithinReach(pos, c) == DistSq(pos, c) < MaxMoveDistance * MaxMoveDistance

\* C1: whatever the input frames and however many raw track ids they hold,
\* the records returned by choose_and_filter_players use at most 2 distinct
\* identities in total and every record has at most 2 entries.
C1_AtMostTwoIdentities ==
  /\ Cardinality(AllOutputKeys) <= 2
  /\ \A i \in 1..NumOut : Len(filtered_player_detections[i]) <= 2

C1_Witness ==
  /\ pc = "done"
  /\ Cardinality(AllInputIds) >= 4
  /\ Cardinality(AllOutputKeys) = 2
  /\ \E i \in 1..NumOut, k \in {1, 2} : Rebound(i, k)

\* C2: in every processed frame the two canonical identities are never bound
\* to the same track-id entry of the frame's detection dictionary, whether a
\* binding is a direct id match or a position-based re-binding.
C2_NoSharedDetection ==
  \A i \in 1..NumOut :
    (Src(i, 1) # NoId /\ Src(i, 2) # NoId) => Src(i, 1) # Src(i, 2)

\* a frame where player 1 was re-bound to the detection that is also the
\* nearest one within reach of player 2
C2_Witness ==
  \E i \in 1..NumOut :
    /\ Rebound(i, 1)
    /\ IsMissing(player_2_id, player_detections[i])
    /\ Pre(i, 2) # NoPos
    /\ BestMatch(Pre(i, 2), player_detections[i]) = Src(i, 1)

\* C3 (as claimed): a canonical identity whose track id is absent from a
\* frame and whose last position is known is bound to the closest detection
\* not bound to the other identity and closer than 300 px, whatever its
\* track id; with no such detection it has no entry in the frame's record.
C3_ClosestWithinReachIsBound ==
  \A i \in 1..NumOut, k \in {1, 2} :
    LET frame == player_detections[i]
        pid == CanonId(k)
        pre == Pre(i, k)
        Q == {j \in 1..Len(frame) :
                /\ frame[j].id # Src(i, Other(k))
                /\ WithinReach(pre, get_center_of_bbox(frame[j].bbox))}
    IN  (pid # NoId /\ ~HasKey(frame, pid) /\ pre # NoPos) =>
          IF Q # {}
            THEN /\ HasKey(filtered_player_detections[i], pid)
                 /\ \E j \in Q :
                      /\ Src(i, k) = frame[j].id
                      /\ Get(filtered_player_detections[i], pid) = frame[j].bbox
                      /\ \A j2 \in Q :
                           DistSq(pre, get_center_of_bbox(frame[j].bbox))
                             <= DistSq(pre, get_center_of_bbox(frame[j2].bbox))
            ELSE ~HasKey(filtered_player_detections[i], pid)

\* C4 (as claimed): when the track id of a canonical identity is present in a
\* frame with its centre 1000 px from the identity's last known position,
\* the identity has no entry in that frame's record.
C4_FarReappearanceUnassigned ==
  \A i \in 1..NumOut, k \in {1, 2} :
    LET frame == player_detections[i]
        pid == CanonId(k)
    IN  (/\ pid # NoId
         /\ HasKey(frame, pid)
         /\ Pre(i, k) # NoPos
         /\ DistSq(Pre(i, k), CenterOfId(i, pid)) = 1000 * 1000)
        => ~HasKey(filtered_player_detections[i], pid)

\* C4 (amended): when the track id of a canonical identity is present in a
\* frame with its centre 1000 px from the identity's last known position,
\* the identity is bound to that detection (a direct id match has no
\* distance test); a detection with another track id is taken only when it
\* is closer than 300 px.
C4_FarReappearanceBoundDirectly ==
  \A i \in 1..NumOut, k \in {1, 2} :
    LET frame == player_detections[i]
        pid == CanonId(k)
    IN  /\ (/\ pid # NoId
            /\ HasKey(frame, pid)
            /\ Pre(i, k) # NoPos
            /\ DistSq(Pre(i, k), CenterOfId(i, pid)) = 1000 * 1000)
           => /\ Src(i, k) = pid
              /\ HasKey(filtered_player_detections[i], pid)
              /\ Get(filtered_player_detections[i], pid) = Get(frame, pid)
        /\ Rebound(i, k) => WithinReach(Pre(i, k), CenterOfId(i, Src(i, k)))

C4_Witness ==
  \E i \in 1..NumOut, k \in {1, 2} :
    /\ CanonId(k) # NoId
    /\ HasKey(player_detections[i], CanonId(k))
    /\ Pre(i, k) # NoPos
    /\ DistSq(Pre(i, k), CenterOfId(i, CanonId(k))) = 1000 * 1000
    /\ HasKey(filtered_player_detections[i], CanonId(k))

\* final score of a track as C5 states it:
\* (cumulative score with the movement bonus / appearances) * (appearances / 10)
C5_Score(tid) ==
  LET st == player_stats[CHOOSE i \in 1..Len(player_stats) : player_stats[i].id = tid]
  IN  FMul(FDivInt(st.total_score, st.appearances), Frac(st.appearances, 10))

StatIds == {player_stats[i].id : i \in 1..Len(player_stats)}

\* C5: after the initialization window the canonical identities are the
\* tracks with the highest final score: P1's final score is at least P2's,
\* and P2's is at least that of every track that was not selected.
C5_TopTwoByFinalScore ==
  Selected =>
    /\ Assigned \subseteq StatIds
    /\ player_2_id # NoId => FLeq(C5_Score(player_2_id), C5_Score(player_1_id))
    /\ \A tid \in StatIds \ Assigned :
         /\ player_1_id # NoId /\ player_2_id # NoId
         /\ FLeq(C5_Score(tid), C5_Score(player_2_id))

\* three ranked tracks with strictly decreasing scores, the movement bonus
\* of one of them strictly between 0 and its cap
C5_Witness ==
  /\ Selected
  /\ player_2_id # NoId
  /\ FLess(C5_Score(player_2_id), C5_Score(player_1_id))
  /\ \E tid \in StatIds \ Assigned : FLess(C5_Score(tid), C5_Score(player_2_id))
  /\ \E i \in 1..Len(player_stats) :
       /\ Len(player_stats[i].positions) > 1
       /\ FLess(FInt(0), movement_bonus(player_stats[i].positions))
       /\ FLess(movement_bonus(player_stats[i].positions), FInt(MovementBonusCap))

\* C6: the number of canonical identities assigned is min(2, number of
\* distinct track ids in the first 10 frames), and no output record has an
\* entry for an identity that was not assigned.
C6_AssignedCount ==
  Selected =>
    /\ Cardinality(Assigned) = Min2(2, Cardinality(WindowIds))
    /\ \A i \in 1..NumOut : Keys(filtered_player_detections[i]) \subseteq Assigned

\* one track in the window, another one after it: a single identity, re-bound
C6_Witness ==
  /\ pc = "done"
  /\ Cardinality(WindowIds) = 1
  /\ Cardinality(AllInputIds) >= 2
  /\ player_1_id # NoId /\ player_2_id = NoId
  /\ \E i \in 1..NumOut : Rebound(i, 1)

\* ------------------------------------------------------------------------
\* Properties of the detection adapter and of its cache
\* ------------------------------------------------------------------------
\* the acceptance criteria as C7 lists them
C7_Accepts(box) ==
  LET w == box.xyxy[3] - box.xyxy[1]
      h == box.xyxy[4] - box.xyxy[2]
  IN  /\ box.cls = "person"
      /\ box.conf >= 50
      /\ 5000 <= w * h /\ w * h <= 150000
      /\ h >= 60
      /\ w <= 250
      /\ w > 0 /\ w <= h /\ h <= 5 * w
      /\ box.xyxy[2] + box.xyxy[4] >= 2 * 216

InResult(box) ==
  \E i \in 1..Len(dfr_player_dict) :
    /\ dfr_player_dict[i].id = TrackIdOf(box)
    /\ dfr_player_dict[i].bbox = box.xyxy

\* C7 (as claimed): detect_frame returns exactly the person detections that
\* satisfy all acceptance criteria: a detection failing any criterion is
\* absent from the result and a detection passing all of them is present in
\* the result under its track id.
C7_ExactlyTheAccepted ==
  dfr_pc = "returned" =>
    /\ \A j \in 1..Len(results) : C7_Accepts(results[j]) <=> InResult(results[j])
    /\ \A i \in 1..Len(dfr_player_dict) :
         \E j \in 1..Len(results) :
           /\ C7_Accepts(results[j])
           /\ dfr_player_dict[i] = [id |-> TrackIdOf(results[j]), bbox |-> results[j].xyxy]

\* When the track ids of the frame are pairwise distinct, the result is
\* exactly the set of accepted person detections.
DetectFrame_ExactOnDistinctIds ==
  (/\ dfr_pc = "returned"
   /\ \A i, j \in 1..Len(results) :
        i # j => TrackIdOf(results[i]) # TrackIdOf(results[j]))
  => /\ \A j \in 1..Len(results) : C7_Accepts(results[j]) <=> InResult(results[j])
     /\ Len(dfr_player_dict)
          = Cardinality({j \in 1..Len(results) : C7_Accepts(results[j])})

CacheRead == read_from_stub /\ stub_path # NoPath
CallEnded == df_pc \in {"returned", "raised"}

\* C8: on a cache hit (read_from_stub true, a stub path given, a value stored
\* there) detect_frames returns the stored list unchanged, calls the detector
\* for no frame and does not write the cache.
C8_CacheHitShortCircuits ==
  (CacheRead /\ stub_at_call.exists) =>
    /\ detector_log = <<>>
    /\ stub_writes = 0
    /\ stub_file = stub_at_call
    /\ df_pc \in {"start", "returned"}
    /\ df_pc = "returned" => df_result = stub_at_call.data

\* a hit whose stored list has another length than the frames passed in
C8_Witness ==
  /\ CacheRead
  /\ stub_at_call.exists
  /\ df_pc = "returned"
  /\ Len(video_frames) > 0
  /\ Len(df_result) # Len(video_frames)

\* C9 (as claimed): when reading the cache is requested and nothing is
\* stored at the path, detect_frames runs the detector on every frame,
\* persists the full list at the path and returns it.
C9_MissComputesAndPersists ==
  (CacheRead /\ ~stub_at_call.exists /\ CallEnded /\ failed_at = 0) =>
    /\ df_pc = "returned"
    /\ detector_log = video_frames
    /\ Len(df_result) = Len(video_frames)
    /\ stub_file = Stored(df_result)

\* C10: once the detector has failed on a frame, detect_frames has called it
\* on the frames up to that one only, once each, no cache entry is written,
\* the failure leaves detect_frames and is what main's handler receives;
\* main completes no stage after the detection stage and saves no video.
C10_DetectorFailureIsFatal ==
  failed_at # 0 =>
    /\ detector_log = [i \in 1..failed_at |-> i]
    /\ stub_writes = 0
    /\ stub_file = stub_at_call
    /\ df_pc = "raised"
    /\ df_error = "DetectorError"
    /\ main_pc \in {"detect_players", "except", "exit"}
    /\ main_pc # "detect_players" => main_error = "DetectorError"
    /\ stages_run = StagesBefore("detect_players")
    /\ ~video_saved

\* the detector failed on the second frame and main has run to its end
C10_Witness ==
  /\ failed_at = 2
  /\ Len(df_player_detections) = 1
  /\ main_pc = "exit"

\* ------------------------------------------------------------------------
\* Properties of the statistics loop
\* ------------------------------------------------------------------------
IntervalStart(k) == ball_shot_frames[k]
IntervalEnd(k) == ball_shot_frames[k + 1]
InRange(frame) == frame < Len(video_frames)
PlayersAt(frame) == AtFrame(player_mini_court_detections, frame)
BallAt(frame) == AtFrame(ball_mini_court_detections, frame)
Appended == Len(SelectSeq(stats_log, LAMBDA e : e = "append"))

\* the interval has a frame outside the processed range or a frame with
\* zero or one player position
C11_Deficient(k) ==
  \/ ~InRange(IntervalStart(k))
  \/ ~InRange(IntervalEnd(k))
  \/ Len(PlayersAt(IntervalStart(k))) <= 1
  \/ Len(PlayersAt(IntervalEnd(k))) <= 1

\* C11 (as claimed): every shot interval whose start or end frame lies
\* outside the processed frame range, or whose start or end frame has zero
\* or one player position, is skipped and appends no statistics record.
C11_DeficientIntervalsSkipped ==
  /\ Len(player_stats_data) = 1 + Appended
  /\ \A k \in 1..Len(stats_log) : C11_Deficient(k) => stats_log[k] = "skip"

\* the player of the start frame that is not the one nearest to the ball
C11_Opponent(k) ==
  LET near == player_shot_ball(PlayersAt(IntervalStart(k)), BallAt(IntervalStart(k)))
  IN  CHOOSE id \in Keys(PlayersAt(IntervalStart(k))) : id # near

C11_Unusable(k) ==
  IF ~InRange(IntervalStart(k)) \/ ~InRange(IntervalEnd(k)) THEN TRUE
  ELSE IF Len(PlayersAt(IntervalStart(k))) <= 1 THEN TRUE
  ELSE ~HasKey(PlayersAt(IntervalEnd(k)), C11_Opponent(k))

\* C11 (amended): a shot interval is skipped, appending no record, exactly
\* when its start or end frame lies outside the processed range, or its
\* start frame has zero or one player position, or its end frame has no
\* position for the opponent (the start-frame player that is not nearest to
\* the ball); an end frame holding the opponent alone does not skip it.
C11_UnusableIntervalsSkipped ==
  /\ Len(player_stats_data) = 1 + Appended
  /\ \A k \in 1..Len(stats_log) : C11_Unusable(k) <=> stats_log[k] = "skip"

\* the loop has skipped an interval whose end frame holds the shooter alone,
\* one with a frame out of range, and has appended a record
C11_Witness ==
  /\ stats_pc = "done"
  /\ \E k \in 1..Len(stats_log) :
       /\ stats_log[k] = "skip"
       /\ InRange(IntervalEnd(k))
       /\ Len(PlayersAt(IntervalStart(k))) = 2
       /\ Len(PlayersAt(IntervalEnd(k))) = 1
  /\ \E k \in 1..Len(stats_log) : stats_log[k] = "skip" /\ ~InRange(IntervalEnd(k))
  /\ \E k \in 1..Len(stats_log) : stats_log[k] = "append"

\* C12 (as claimed): in every row of the per-frame table and for each of the
\* two players, when the player's number of shots is 0 both of the player's
\* averages (average shot speed, average player speed) are 0; every divisor
\* of an average is non-zero.
C12_ZeroShotsGiveZeroAverages ==
  stats_pc = "done" =>
    \A i \in 1..Len(player_stats_data_df) : \A p \in PlayerSlots :
      LET row == player_stats_data_df[i].player[p]
      IN  /\ ReplaceZero(row.number_of_shots) # 0
          /\ row.number_of_shots = 0 =>
               /\ row.average_shot_speed = FInt(0)
               /\ row.average_player_speed = FInt(0)

\* With zero shots the average shot speed is 0 and the average player speed
\* is the player's total player speed divided by one.
Stats_ZeroShotsAverages ==
  stats_pc = "done" =>
    \A i \in 1..Len(player_stats_data_df) : \A p \in PlayerSlots :
      LET row == player_stats_data_df[i].player[p]
      IN  row.number_of_shots = 0 =>
            /\ row.average_shot_speed = FInt(0)
            /\ row.average_player_speed = row.total_player_speed

\* ------------------------------------------------------------------------
\* Properties of ball detection
\* ------------------------------------------------------------------------
HighestConfidence(boxes, i) == \A j \in 1..Len(boxes) : boxes[j].conf <= boxes[i].conf

Descending(boxes) ==
  \A i, j \in 1..Len(boxes) : i < j => boxes[i].conf >= boxes[j].conf

Detected(i) == HasKey(ball_detections[i], 1)
BoxAt(list, i) == Get(list[i], 1)
EndsDetected == Detected(1) /\ Detected(Len(ball_detections))

\* C14: for every ball sequence with a detection at the first and at the
\* last frame, interpolation yields a box at every frame index: the detected
\* box where there is one and, in a gap, the point of the line through the
\* neighbouring detections, coordinate by coordinate; interpolating the
\* output again returns it unchanged.
C14_GapFreeAndIdempotent ==
  (EndsDetected /\ interp_pc \in {"once", "twice"}) =>
    /\ Len(ball_interpolated) = Len(ball_detections)
    /\ \A i \in 1..Len(ball_detections) :
         /\ Keys(ball_interpolated[i]) = {1}
         /\ BoxAt(ball_interpolated, i) # NoBox
         /\ Detected(i) => BoxAt(ball_interpolated, i) = BoxAt(ball_detections, i)
         /\ ~Detected(i) =>
              \E lo \in 1..(i - 1) : \E hi \in (i + 1)..Len(ball_detections) :
                /\ Detected(lo) /\ Detected(hi)
                /\ \A k \in (lo + 1)..(hi - 1) : ~Detected(k)
                /\ \A c \in 1..4 :
                     FMul(FSub(BoxAt(ball_interpolated, i)[c], BoxAt(ball_detections, lo)[c]),
                          FInt(hi - lo))
                       = FMul(FSub(BoxAt(ball_detections, hi)[c],
                                   BoxAt(ball_detections, lo)[c]),
                              FInt(i - lo))
    /\ interp_pc = "twice" => ball_reinterpolated = ball_interpolated

\* a gap of two frames between different boxes, interpolated twice
C14_Witness ==
  /\ interp_pc = "twice"
  /\ Len(ball_detections) = 4
  /\ EndsDetected
  /\ ~Detected(2) /\ ~Detected(3)
  /\ BoxAt(ball_detections, 1) # BoxAt(ball_detections, 4)
  /\ BoxAt(ball_interpolated, 2) # BoxAt(ball_interpolated, 3)

\* ------------------------------------------------------------------------
\* Properties of shot detection
\* ------------------------------------------------------------------------
ShotCandidates == CandidatesFrom(MidY(RowsOf(ball_detections)), 1)

\* C15: the shot-event frame indices are strictly increasing, without
\* duplicates, no two of them closer together than 25 frames; so every
\* interval of consecutive shot events, as the statistics loop forms them,
\* has a positive frame gap.
C15_ShotsSpacedAndIncreasing ==
  shot_pc = "returned" =>
    /\ \A i, j \in 1..Len(ball_shot_frames) :
         i < j => /\ ball_shot_frames[i] < ball_shot_frames[j]
                  /\ ball_shot_frames[j] - ball_shot_frames[i] >= 25
    /\ \A k \in 1..(Len(ball_shot_frames) - 1) :
         ball_shot_frames[k + 1] - ball_shot_frames[k] > 0
    /\ \A i \in 1..Len(ball_shot_frames) :
         ball_shot_frames[i] \in 0..(Len(ball_detections) - 1)

\* two shot events are returned and a candidate closer than 25 frames to
\* the first of them was dropped
C15_Witness ==
  /\ shot_pc = "returned"
  /\ Len(ball_shot_frames) = 2
  /\ \E i \in 1..Len(ShotCandidates) :
       /\ ShotCandidates[i] > ball_shot_frames[1]
       /\ ShotCandidates[i] - ball_shot_frames[1] < 25

\* ------------------------------------------------------------------------
\* Properties of the tracking loop, frame by frame
\* ------------------------------------------------------------------------
Tracked == Len(track_log)
LastPos(k) == IF k = 1 THEN player_1_last_pos ELSE player_2_last_pos
\* last known position of identity k after frame i
PosAfter(i, k) == IF i < Tracked THEN Pre(i + 1, k) ELSE LastPos(k)

DirectlyBound(i, k) ==
  /\ HasKey(filtered_player_detections[i], CanonId(k))
  /\ Get(filtered_player_detections[i], CanonId(k)) = Get(player_detections[i], CanonId(k))
  /\ PosAfter(i, k) = CenterOfId(i, CanonId(k))

\* C16 (as claimed): for every canonical identity and every frame, if the
\* track id originally assigned to the identity is in the frame's
\* detections, whatever its value (0 included), the identity is bound to
\* that detection in the frame's record and its last known position becomes
\* the centre of that detection's box.
C16_OwnIdBoundDirectly ==
  \A i \in 1..Tracked : \A k \in {1, 2} :
    (CanonId(k) # NoId /\ HasKey(player_detections[i], CanonId(k)))
      => DirectlyBound(i, k)

\* The same for the identities whose track id is not 0.
Resolver_NonZeroIdBoundDirectly ==
  \A i \in 1..Tracked : \A k \in {1, 2} :
    (Truthy(CanonId(k)) /\ HasKey(player_detections[i], CanonId(k)))
      => DirectlyBound(i, k)

\* ------------------------------------------------------------------------
\* Properties of the initialization window
\* ------------------------------------------------------------------------
StatsOf(id) == player_stats[CHOOSE i \in 1..Len(player_stats) : player_stats[i].id = id]

\* frames of the window read so far that hold a detection of the track id
FramesWith(id) == {i \in 1..frame_idx : HasKey(player_detections[i], id)}

\* of those, the frames whose candidates (choose_players) include the id
FramesCounting(id) ==
  {i \in FramesWith(id) :
     \E j \in 1..Len(choose_players(player_detections[i])) :
       choose_players(player_detections[i])[j] = id}

RECURSIVE ScoreOver(_, _)
ScoreOver(id, frames) ==
  IF frames = {} THEN 0
  ELSE LET i == CHOOSE x \in frames : TRUE
       IN  AppearanceScore(Get(player_detections[i], id)) + ScoreOver(id, frames \ {i})

RECURSIVE CentersOver(_, _)
CentersOver(id, frames) ==
  IF frames = {} THEN <<>>
  ELSE LET i == CHOOSE x \in frames : \A y \in frames : x <= y
       IN  <<CenterOfId(i, id)>> \o CentersOver(id, frames \ {i})

Accumulated(id, frames) ==
  /\ StatsHas(player_stats, id)
  /\ StatsOf(id).appearances = Cardinality(frames)
  /\ StatsOf(id).total_score = FInt(ScoreOver(id, frames))
  /\ StatsOf(id).positions = CentersOver(id, frames)

SeenIds == UNION {Keys(player_detections[i]) : i \in 1..frame_idx}

\* C17 (as claimed): while the initialization window is read, every
\* detection of every frame read so far has contributed to its track id's
\* cumulative score, appearance count and observed centres, however many
\* detections the frame holds.
C17_EveryDetectionCounts ==
  pc = "collect" => \A id \in SeenIds : Accumulated(id, FramesWith(id))

\* C17 (amended): while the initialization window is read, a detection
\* contributes to its track id's cumulative score, appearance count and
\* observed centres exactly when it is among the candidates choose_players
\* returns for its frame: every detection of a frame with at most two
\* detections, and two detections of a frame with more.
C17_CandidatesCount ==
  pc = "collect" =>
    /\ \A id \in SeenIds :
         IF FramesCounting(id) = {} THEN ~StatsHas(player_stats, id)
         ELSE Accumulated(id, FramesCounting(id))
    /\ \A i \in 1..frame_idx :
         LET n == Cardinality({id \in Keys(player_detections[i]) : i \in FramesCounting(id)})
         IN  n = Min2(2, Len(player_detections[i]))

\* a frame with three detections has been read, one of them left out, and a
\* track id has been counted in two frames
C17_Witness ==
  /\ pc = "collect"
  /\ \E i \in 1..frame_idx : \E id \in Keys(player_detections[i]) :
       /\ Len(player_detections[i]) = 3
       /\ i \notin FramesCounting(id)
  /\ \E id \in SeenIds : Cardinality(FramesCounting(id)) >= 2

\* ------------------------------------------------------------------------
\* Properties of re-binding when both identities are missing
\* ------------------------------------------------------------------------
MissingIn(i, k) == CanonId(k) # NoId /\ ~HasKey(player_detections[i], CanonId(k))

\* track ids of frame i within 300 px of the last known position of k
QualifyingIds(i, k) ==
  IF Pre(i, k) = NoPos THEN {}
  ELSE {id \in Keys(player_detections[i]) : WithinReach(Pre(i, k), CenterOfId(i, id))}

\* of those, the ones at the smallest distance
NearestIds(i, k) ==
  {id \in QualifyingIds(i, k) :
     \A other \in QualifyingIds(i, k) :
       DistSq(Pre(i, k), CenterOfId(i, id)) <= DistSq(Pre(i, k), CenterOfId(i, other))}

BoundTo(i, k, id) ==
  /\ Src(i, k) = id
  /\ HasKey(filtered_player_detections[i], CanonId(k))
  /\ Get(filtered_player_detections[i], CanonId(k)) = Get(player_detections[i], id)

Unassigned(i, k) ==
  /\ Src(i, k) = NoId
  /\ ~HasKey(filtered_player_detections[i], CanonId(k))

BothMissingRule(i) ==
  LET n1 == NearestIds(i, 1)
      n2 == NearestIds(i, 2)
  IN  /\ (n1 # {} /\ n2 # {} /\ n1 \cap n2 = {}) =>
           /\ \E id \in n1 : BoundTo(i, 1, id)
           /\ \E id \in n2 : BoundTo(i, 2, id)
      /\ (n1 = n2 /\ Cardinality(n1) = 1) =>
           \E id \in n1 : \E k \in {1, 2} :
             /\ BoundTo(i, k, id)
             /\ Src(i, Other(k)) # id
             /\ \/ Unassigned(i, Other(k))
                \/ \E rest \in QualifyingIds(i, Other(k)) \ {id} : BoundTo(i, Other(k), rest)

\* C18 (as claimed): in a frame where both canonical identities are missing,
\* if the nearest detection within 300 px of the last known position of P1
\* is another one than that of P2, each identity is bound to its own; if it
\* is the same detection, it is bound to one identity only and the other
\* identity is bound to one of the remaining detections within its reach or
\* left unassigned.
C18_BothMissingBindings ==
  \A i \in 1..Tracked : (MissingIn(i, 1) /\ MissingIn(i, 2)) => BothMissingRule(i)

\* The same where neither a canonical id nor a track id of the frame is 0.
Resolver_BothMissingBindingsNonZero ==
  \A i \in 1..Tracked :
    (/\ MissingIn(i, 1) /\ MissingIn(i, 2)
     /\ Truthy(CanonId(1)) /\ Truthy(CanonId(2))
     /\ 0 \notin Keys(player_detections[i]))
      => BothMissingRule(i)

\* both identities were re-bound in one frame, each to its own nearest
Resolver_BothReboundWitness ==
  \E i \in 1..Tracked :
    /\ MissingIn(i, 1) /\ MissingIn(i, 2)
    /\ 0 \notin Keys(player_detections[i])
    /\ NearestIds(i, 1) # {} /\ NearestIds(i, 2) # {}
    /\ NearestIds(i, 1) \cap NearestIds(i, 2) = {}
    /\ Rebound(i, 1) /\ Rebound(i, 2)

\* both identities had the same nearest detection
Resolver_SameNearestWitness ==
  \E i \in 1..Tracked :
    /\ MissingIn(i, 1) /\ MissingIn(i, 2)
    /\ 0 \notin Keys(player_detections[i])
    /\ NearestIds(i, 1) = NearestIds(i, 2) /\ Cardinality(NearestIds(i, 1)) = 1
    /\ Len(player_detections[i]) >= 2

\* ------------------------------------------------------------------------
\* Properties of the state carried from frame to frame
\* ------------------------------------------------------------------------
BoundIn(i, k) ==
  CanonId(k) # NoId /\ HasKey(filtered_player_detections[i], CanonId(k))

\* every frame handled so far left the positions as C19 says
PositionsFollowBindings ==
  /\ Tracked = Len(filtered_player_detections)
  /\ pc = "track" => Tracked = frame_idx
  /\ \A k \in {1, 2} : Tracked > 0 => Pre(1, k) = NoPos
  /\ \A i \in 1..Tracked : \A k \in {1, 2} :
       IF BoundIn(i, k)
         THEN PosAfter(i, k)
                = get_center_of_bbox(Get(filtered_player_detections[i], CanonId(k)))
         ELSE PosAfter(i, k) = Pre(i, k)

\* a step changes a last known position only by handling the next frame,
\* and changes the accumulators only while the window is being processed
CarriedStateStep ==
  /\ (player_1_last_pos' # player_1_last_pos \/ player_2_last_pos' # player_2_last_pos)
       => /\ pc = "track" /\ pc' = "track"
          /\ frame_idx' = frame_idx + 1
          /\ Len(filtered_player_detections') = frame_idx'
  /\ pc # "collect" => player_stats' = player_stats

\* C19: the last known position of a canonical identity changes only when
\* the next frame, in increasing frame order, is handled and the identity is
\* bound in it (directly or by re-binding), and then becomes the centre of
\* the bound box; in a frame where the identity is not bound it stays as it
\* was; the cumulative-score accumulators are not modified once the
\* initialization is over.
C19_CarriedStateDiscipline == []PositionsFollowBindings /\ [][CarriedStateStep]_vars

\* one identity was re-bound in a frame, and an identity with a known
\* position went through a frame without being bound
C19_Witness ==
  /\ pc = "done"
  /\ \E i \in 1..Tracked : \E k \in {1, 2} : BoundIn(i, k) /\ Rebound(i, k)
  /\ \E i \in 1..Tracked : \E k \in {1, 2} :
       /\ ~BoundIn(i, k)
       /\ Pre(i, k) # NoPos
       /\ PosAfter(i, k) = Pre(i, k)
  /\ player_stats # <<>>

\* ------------------------------------------------------------------------
\* Properties of the returned list
\* ------------------------------------------------------------------------
\* C20: choose_and_filter_players returns one record per input frame, the
\* record at index i made from frame i; a record has entries only for the
\* canonical identities bound in that frame, and the box of an entry is a
\* box of that frame's input detections.
C20_OneRecordPerFrame ==
  pc = "done" =>
    /\ Len(filtered_player_detections) = Len(player_detections)
    /\ \A i \in 1..Len(filtered_player_detections) :
         /\ DistinctIds(filtered_player_detections[i])
         /\ \A key \in Keys(filtered_player_detections[i]) :
              \E k \in {1, 2} :
                /\ key = CanonId(k)
                /\ Src(i, k) \in Keys(player_detections[i])
                /\ Get(filtered_player_detections[i], key)
                     = Get(player_detections[i], Src(i, k))
         /\ \A k \in {1, 2} :
              Src(i, k) # NoId => HasKey(filtered_player_detections[i], CanonId(k))

\* three frames were returned: a record with two entries, an empty record
\* for a frame that had detections, and a record made by re-binding
C20_Witness ==
  /\ pc = "done"
  /\ Len(filtered_player_detections) = 3
  /\ \E i \in 1..3 : Len(filtered_player_detections[i]) = 2
  /\ \E i \in 1..3 :
       filtered_player_detections[i] = <<>> /\ player_detections[i] # <<>>
  /\ \E i \in 1..3 : \E k \in {1, 2} : Rebound(i, k)

\* ------------------------------------------------------------------------
\* Properties of the appended statistics records
\* ------------------------------------------------------------------------
\* the interval of the j-th appended record
AppendInterval(j) ==
  CHOOSE k \in 1..Len(stats_log) :
    /\ stats_log[k] = "append"
    /\ Cardinality({m \in 1..k : stats_log[m] = "append"}) = j

\* the start-frame ids at the least distance from the ball
NearestToBall(k) ==
  LET players == PlayersAt(IntervalStart(k))
      dist(id) == measure_distance(Get(players, id), BallAt(IntervalStart(k)))
  IN  {id \in Keys(players) : \A other \in Keys(players) : dist(id) <= dist(other)}

\* the stat slot of an id: its rank among the ids of the start frame
SlotOf(k, id) == IF \A other \in Keys(PlayersAt(IntervalStart(k))) : id <= other THEN 1 ELSE 2

\* speed in km/h over the interval for a mini-court distance in pixels
IntervalSpeed(k, pixels) ==
  Frac(pixels * DoubleLineWidthCm * AssumedFps * 36,
       100 * MiniCourtWidth * (IntervalEnd(k) - IntervalStart(k)) * 10)

\* the j-th appended record against the record before it
RecordFollows(j) ==
  LET k == AppendInterval(j)
      prev == player_stats_data[j]
      rec == player_stats_data[j + 1]
      start == PlayersAt(IntervalStart(k))
  IN  \E shooter \in NearestToBall(k) : \E opponent \in Keys(start) \ {shooter} :
        LET s == SlotOf(k, shooter)
            o == SlotOf(k, opponent)
            shot_speed == IntervalSpeed(k, measure_distance(BallAt(IntervalStart(k)),
                                                            BallAt(IntervalEnd(k))))
            run_speed == IntervalSpeed(k, measure_distance(Get(start, opponent),
                                         Get(PlayersAt(IntervalEnd(k)), opponent)))
        IN  /\ s # o
            /\ {s, o} = PlayerSlots
            /\ rec.frame_num = IntervalStart(k)
            /\ rec.player[s].number_of_shots = prev.player[s].number_of_shots + 1
            /\ rec.player[s].total_shot_speed =
                 FAdd(prev.player[s].total_shot_speed, shot_speed)
            /\ rec.player[s].last_shot_speed = shot_speed
            /\ rec.player[s].total_player_speed = prev.player[s].total_player_speed
            /\ rec.player[s].last_player_speed = prev.player[s].last_player_speed
            /\ rec.player[o].total_player_speed =
                 FAdd(prev.player[o].total_player_speed, run_speed)
            /\ rec.player[o].last_player_speed = run_speed
            /\ rec.player[o].number_of_shots = prev.player[o].number_of_shots
            /\ rec.player[o].total_shot_speed = prev.player[o].total_shot_speed
            /\ rec.player[o].last_shot_speed = prev.player[o].last_shot_speed

\* C21: each record appended for a non-skipped interval equals the record
\* before it except that frame_num is the interval's start frame, the
\* shooter's number of shots grows by exactly 1 and his total and last shot
\* speed are updated, and the opponent's total and last player speed are
\* updated; shooter and opponent occupy the two different stat slots and
\* every other field is carried forward.
C21_RecordExtendsPrevious ==
  /\ player_stats_data[1] = InitialStats
  /\ Len(player_stats_data) = 1 + Appended
  /\ \A j \in 1..Appended : RecordFollows(j)

\* two records were appended, the second on top of a first with a non-zero
\* shot speed, an opponent has moved, the shooter once in each slot, once with the dict order of the
\* start frame differing from the sorted order
C21_Witness ==
  /\ stats_pc = "done"
  /\ Appended = 2
  /\ \A p \in PlayerSlots : player_stats_data[3].player[p].number_of_shots = 1
  /\ \E p \in PlayerSlots : player_stats_data[2].player[p].total_shot_speed # FInt(0)
  /\ \E p \in PlayerSlots : player_stats_data[3].player[p].total_player_speed # FInt(0)
  /\ \E j \in 1..2 : PlayersAt(IntervalStart(AppendInterval(j)))[1].id = 2

\* ------------------------------------------------------------------------
\* Properties of the list returned by detect_frames
\* ------------------------------------------------------------------------
\* C22 (as claimed): on the compute path and on the cache-hit path alike,
\* detect_frames returns a list with exactly one detection dictionary per
\* input frame, the record at an index describing the frame at that index.
C22_OneDictPerFrame ==
  df_pc = "returned" =>
    /\ Len(df_result) = Len(video_frames)
    /\ ~CacheRead => detector_log = video_frames

\* On the compute path the returned list has one dictionary per frame, the
\* detector having been given the frames in order; on a hit the list has the
\* length of the stored one.
DetectFrames_ComputePathOneDictPerFrame ==
  df_pc = "returned" =>
    IF CacheRead
      THEN Len(df_result) = Len(stub_at_call.data)
      ELSE /\ Len(df_result) = Len(video_frames)
           /\ detector_log = video_frames

\* a computed list for two frames has been returned
DetectFrames_ComputedWitness ==
  /\ df_pc = "returned"
  /\ ~CacheRead
  /\ Len(video_frames) = 2
  /\ Len(df_result) = 2

\* ------------------------------------------------------------------------
\* Properties of the per-frame statistics table
\* ------------------------------------------------------------------------
\* the last record of the list whose frame_num is at or before the frame
LatestRecord(frame) ==
  LET upto == {j \in 1..Len(player_stats_data) : player_stats_data[j].frame_num <= frame}
  IN  player_stats_data[CHOOSE j \in upto : \A m \in upto : m <= j]

RowIsLatest(row, frame) ==
  row = WithAverages([frame_num |-> frame, player |-> LatestRecord(frame).player])

OneRowPerFrame ==
  /\ Len(player_stats_data_df) = Len(video_frames)
  /\ \A frame \in 0..(Len(video_frames) - 1) :
       RowIsLatest(player_stats_data_df[frame + 1], frame)

\* C23 (as claimed): the per-frame table has exactly one row for each frame
\* index in [0, N), for every sequence of shot-event frames, a first shot
\* event at frame 0 included; each row holds the values of the latest record
\* whose frame_num is at or before that frame.
C23_OneRowPerFrame == stats_pc = "done" => OneRowPerFrame

\* a record besides the initial one carries frame_num 0
ShotRecordAtZero ==
  \E j \in 2..Len(player_stats_data) : player_stats_data[j].frame_num = 0

\* Unless a record was appended for an interval starting at frame 0, the
\* table has one row per frame holding the latest record; with such a record
\* frame 0 has two rows, the initial record and the appended one.
Stats_OneRowPerFrameUnlessShotAtZero ==
  stats_pc = "done" =>
    IF ShotRecordAtZero
      THEN /\ Len(player_stats_data_df) = Len(video_frames) + 1
           /\ player_stats_data_df[1] = WithAverages(InitialStats)
           /\ \A frame \in 0..(Len(video_frames) - 1) :
                RowIsLatest(player_stats_data_df[frame + 2], frame)
      ELSE OneRowPerFrame

\* a table of three frames whose record starts at frame 1: rows 0, 1 and 2
Stats_TableWitness ==
  /\ stats_pc = "done"
  /\ ~ShotRecordAtZero
  /\ Len(video_frames) = 3
  /\ Appended = 1
  /\ player_stats_data[2].frame_num = 1

\* a table with a record appended for the interval starting at frame 0
Stats_ShotAtZeroWitness ==
  /\ stats_pc = "done"
  /\ ShotRecordAtZero
  /\ Len(video_frames) = 2

\* ------------------------------------------------------------------------
\* Properties of read_video_sampled and the sampled frame numbers
\* ------------------------------------------------------------------------
\* the list of main line 59 names the frames read, one by one
SampledNumbersMatchFrames ==
  rv_pc = "done" =>
    /\ Len(sampled_frame_numbers) = Len(rv_frames)
    /\ \A i \in 1..Len(rv_frames) :
         /\ sampled_frame_numbers[i] = rv_start_frame + (i - 1) * rv_frame_step
         /\ sampled_frame_numbers[i] = rv_frames[i]

\* C24: for every start_frame, end_frame > start_frame, frame_step >= 1 and
\* every point at which the video read stops succeeding, read_video_sampled
\* terminates, and sampled_frame_numbers of main has the length of the list
\* of frames read, its i-th element (from 0) being start_frame + i*frame_step,
\* the original frame number of the i-th frame read.
C24_SampledNumbersMatchFrames ==
  /\ []SampledNumbersMatchFrames
  /\ <>(rv_pc = "done")

\* without a limit, the read stopped succeeding after two frames and before
\* the range was exhausted, with a step above 1 and a start above 0
C24_Witness ==
  /\ rv_pc = "done"
  /\ rv_max_frames = NoMax
  /\ rv_start_frame > 0
  /\ rv_frame_step > 1
  /\ Len(rv_frames) = 2
  /\ rv_start_frame + 2 * rv_frame_step < rv_end_frame
  /\ sampled_frame_numbers = rv_frames

\* the range was read to its end, its length not a multiple of the step
Read_WholeRangeWitness ==
  /\ rv_pc = "done"
  /\ rv_max_frames = NoMax
  /\ Len(rv_frames) >= 2
  /\ rv_start_frame + Len(rv_frames) * rv_frame_step > rv_end_frame

====
